---- MODULE Spec2Model ----
(***************************************************************************)
(* markdown-tool: the structural validator of md_validator.py              *)
(* (MarkdownValidator.validate_sequence_step, validate_block,              *)
(* validate_structure, validate_file, verify_project) as a state machine.  *)
(*                                                                         *)
(* Strings that the code only compares are TLA+ strings.  A text (heading  *)
(* text, fence body) is a sequence of lexemes, " " being whitespace, and a *)
(* regular expression is a sequence of atoms: a lexeme matches itself and  *)
(* ".*" matches any run of lexemes.  An optional value (a key that may be  *)
(* missing from a dict, a value that may be None) is a sequence of length  *)
(* 0 or 1.                                                                 *)
(***************************************************************************)
EXTENDS Integers, Sequences, FiniteSets, TLC

\* ------------------------------------------------------------------ bounds
MaxBlocks == 2          \* Blocks in spec['structure']
MaxConstructs == 2      \* top-level markdown constructs in a document
MaxFiles == 3           \* validate_file calls made on one validator
MaxProjectConstructs == 1   \* constructs in a document of a several-file run

\* ------------------------------------------------------------- generic
SeqsUpTo(S, n) == UNION {[1..k -> S] : k \in 0..n}

Absent == <<>>
Given(v) == <<v>>
Has(opt) == opt # <<>>
Val(opt) == opt[1]

Contains(list, x) == \E i \in 1..Len(list) : list[i] = x

\* ------------------------------------------------------------- tokens
\* markdown_it.token.Token: the fields the validator reads.  map is None
\* (Absent) on close tokens, [first line, line after the last] otherwise.
Tok(type, tag, info, content, map) ==
    [type |-> type, tag |-> tag, info |-> info, content |-> content, map |-> map]

\* f"h{level}"
HTag(level) == CASE level = 1 -> "h1" [] level = 2 -> "h2" [] OTHER -> "h3"

\* The token streams MarkdownIt().parse emits for the top-level constructs
\* of a document, lines relative to the construct's first line.
Heading(level, text) ==
    << Tok("heading_open", HTag(level), "", <<>>, <<0, 1>>),
       Tok("inline", "", "", text, <<0, 1>>),
       Tok("heading_close", HTag(level), "", <<>>, Absent) >>

Paragraph(text, l) ==
    << Tok("paragraph_open", "p", "", <<>>, <<l, l + 1>>),
       Tok("inline", "", "", text, <<l, l + 1>>),
       Tok("paragraph_close", "p", "", <<>>, Absent) >>

Fence(info, body) == << Tok("fence", "code", info, body, <<0, 3>>) >>

ListItem(l, h, inner) ==
    << Tok("list_item_open", "li", "", <<>>, <<l, l + h>>) >>
    \o inner \o
    << Tok("list_item_close", "li", "", <<>>, Absent) >>

BulletList(l, h, items) ==
    << Tok("bullet_list_open", "ul", "", <<>>, <<l, l + h>>) >>
    \o items \o
    << Tok("bullet_list_close", "ul", "", <<>>, Absent) >>

\* "- Project\n  - x\n- x": a list item holding a nested list, then a second item
NestedList ==
    BulletList(0, 3,
        ListItem(0, 2, Paragraph(<<"Project">>, 0)
                       \o BulletList(1, 1, ListItem(1, 1, Paragraph(<<"x">>, 1))))
        \o ListItem(2, 1, Paragraph(<<"x">>, 2)))

\* A construct: its tokens and the number of source lines it takes, the
\* blank line after it included.
Construct(toks, height) == [toks |-> toks, height |-> height]

Constructs ==
    { Construct(Heading(1, <<"Project">>), 2),
      Construct(Heading(1, <<"Project", " ", "x">>), 2),
      Construct(Heading(2, <<"x">>), 2),
      Construct(Paragraph(<<"x">>, 0), 2),
      Construct(NestedList, 4) }

Shift(tok, base) ==
    [tok EXCEPT !.map = IF Has(@) THEN <<@[1] + base, @[2] + base>> ELSE @]

RECURSIVE Parse(_, _)
\* md_parser.parse(content): the flat token stream of a document
Parse(doc, base) ==
    IF doc = <<>> THEN <<>>
    ELSE [i \in 1..Len(Head(doc).toks) |-> Shift(Head(doc).toks[i], base)]
         \o Parse(Tail(doc), base + Head(doc).height)

Docs == SeqsUpTo(Constructs, MaxConstructs)

\* ------------------------------------------------------------- regex
RECURSIVE FullMatch(_, _)
\* re.compile(regex).fullmatch(text) is not None
FullMatch(regex, text) ==
    IF regex = <<>> THEN text = <<>>
    ELSE IF Head(regex) = ".*"
         THEN \E k \in 0..Len(text) :
                 FullMatch(Tail(regex), SubSeq(text, k + 1, Len(text)))
         ELSE /\ text # <<>>
              /\ Head(text) = Head(regex)
              /\ FullMatch(Tail(regex), Tail(text))

\* re.compile(regex).match(text) is not None: a match of a prefix
PrefixMatch(regex, text) == FullMatch(regex \o <<".*">>, text)

RECURSIVE LStrip(_)
LStrip(text) ==
    IF text # <<>> /\ Head(text) = " " THEN LStrip(Tail(text)) ELSE text

RECURSIVE RStrip(_)
RStrip(text) ==
    IF text # <<>> /\ text[Len(text)] = " "
    THEN RStrip(SubSeq(text, 1, Len(text) - 1)) ELSE text

\* str.strip()
Strip(text) == RStrip(LStrip(text))

\* ------------------------------------------------------------- spec.yaml
\* A Step of a Block's sequence; level, info and content_regex are optional keys.
Step(type, level, info, content_regex) ==
    [type |-> type, level |-> level, info |-> info, content_regex |-> content_regex]

\* A Block after load_spec has set its defaults; max_occurrences may be None.
Block(sequence, min_occurrences, max_occurrences, error_level) ==
    [sequence |-> sequence, min_occurrences |-> min_occurrences,
     max_occurrences |-> max_occurrences, error_level |-> error_level]

\* What a message says about a Step.
Desc(what, level, info, regex) ==
    [what |-> what, level |-> level, info |-> info, regex |-> regex]

NoDesc == Desc("", Absent, Absent, Absent)

\* MarkdownValidator._describe_step
DescribeStep(step) ==
    LET base ==
          IF step.type = "heading_open" /\ Has(step.level)
          THEN Desc("heading", step.level, Absent, Absent)
          ELSE IF step.type = "paragraph_open"
          THEN Desc("paragraph", Absent, Absent, Absent)
          ELSE IF step.type = "fence" /\ Has(step.info)
          THEN Desc("code block", Absent, step.info, Absent)
          ELSE Desc(step.type, Absent, Absent, Absent)
    IN  [base EXCEPT !.regex = step.content_regex]

\* ------------------------------------------------- validate_sequence_step
\* The error message of a failed Step: why it failed, the line the message
\* names (Absent is 'N/A'), what was expected and what was found.
StepError(why, line, about, found) ==
    [why |-> why, line |-> line, about |-> about, found |-> found]

NoError == StepError("", Absent, NoDesc, "")

StepResult(success, consumed, error) ==
    [success |-> success, consumed |-> consumed, error |-> error]

\* tokens[i] of the code (0-based)
At(tokens, i) == tokens[i + 1]

\* token.map[0] + 1 if token.map else 'N/A'
LineNum(token) == IF Has(token.map) THEN Given(token.map[1] + 1) ELSE Absent

\* The content a Step's content_regex is matched against.
ContentToCheck(tokens, token_index) ==
    LET token == At(tokens, token_index) IN
    IF token.type \in {"heading_open", "paragraph_open"}
    THEN IF token_index + 1 < Len(tokens) /\ At(tokens, token_index + 1).type = "inline"
         THEN Strip(At(tokens, token_index + 1).content)
         ELSE <<>>
    ELSE token.content

\* pattern.match in place of pattern.fullmatch
ContentMatches_prefix(regex, content) == PrefixMatch(regex, content)

\* pattern.fullmatch(content_to_check)
ContentMatches(regex, content) == FullMatch(regex, content)

\* 'level' in step and token.type == 'heading_open' and token.tag != f"h{level}"
LevelMismatch(step, token) ==
    /\ Has(step.level)
    /\ token.type = "heading_open"
    /\ token.tag # HTag(Val(step.level))

\* 'info' in step and token.type == 'fence' and token.info != step['info']
InfoMismatch(step, token) ==
    /\ Has(step.info)
    /\ token.type = "fence"
    /\ token.info # Val(step.info)

\* MarkdownValidator.validate_sequence_step
validate_sequence_step(tokens, token_index, step) ==
    IF token_index >= Len(tokens)
    THEN StepResult(FALSE, 0, StepError("eof", Absent, DescribeStep(step), ""))
    ELSE
    LET token == At(tokens, token_index)
        line_num == LineNum(token)
    IN  IF token.type # step.type
        THEN StepResult(FALSE, 0,
                 StepError("type", line_num, DescribeStep(step), token.type))
        ELSE IF LevelMismatch(step, token)
        THEN StepResult(FALSE, 0,
                 StepError("level", line_num,
                           Desc("", step.level, Absent, Absent), token.tag))
        ELSE IF InfoMismatch(step, token)
        THEN StepResult(FALSE, 0,
                 StepError("info", line_num,
                           Desc("", Absent, step.info, Absent), token.info))
        ELSE IF /\ Has(step.content_regex)
                /\ ~ContentMatches(Val(step.content_regex),
                                   ContentToCheck(tokens, token_index))
        THEN StepResult(FALSE, 0,
                 StepError("regex", line_num,
                           Desc("", Absent, Absent, step.content_regex), ""))
        ELSE StepResult(TRUE, 1, NoError)

\* ---------------------------------------------------------- validate_block
\* The error message of a failed Block attempt (NoBlockError is the None that
\* a successful attempt returns).
BlockError(first, step_no, error) ==
    [first |-> first, step_no |-> step_no, error |-> error]

NoBlockError == BlockError(NoDesc, 0, NoError)

\* (tokens_consumed, error_message); last is not returned by the code: it is
\* the index of the token that the final Step matched, -1 if none did.
BlockResult(consumed, error, last) ==
    [consumed |-> consumed, error |-> error, last |-> last]

RECURSIVE SkipListItem_flat(_, _, _)
\* The loop without its depth: it stops after the first list_item_close.
SkipListItem_flat(tokens, current_index, list_item_depth) ==
    IF current_index >= Len(tokens) THEN current_index
    ELSE IF At(tokens, current_index).type = "list_item_close"
    THEN current_index + 1
    ELSE SkipListItem_flat(tokens, current_index + 1, list_item_depth)

RECURSIVE SkipListItem(_, _, _)
\* The depth-tracking loop: from current_index, up to and including the
\* list_item_close that takes list_item_depth to 0, or to the end of tokens.
SkipListItem(tokens, current_index, list_item_depth) ==
    IF current_index >= Len(tokens) THEN current_index
    ELSE LET token == At(tokens, current_index) IN
         IF token.type = "list_item_open"
         THEN SkipListItem(tokens, current_index + 1, list_item_depth + 1)
         ELSE IF token.type = "list_item_close"
         THEN IF list_item_depth - 1 = 0
              THEN current_index + 1
              ELSE SkipListItem(tokens, current_index + 1, list_item_depth - 1)
         ELSE SkipListItem(tokens, current_index + 1, list_item_depth)

RECURSIVE SkipRelated(_, _)
\* The loop over the inline and close tokens that follow an open token.
SkipRelated(tokens, current_index) ==
    IF /\ current_index < Len(tokens)
       /\ At(tokens, current_index).type \in {"inline", "heading_close", "paragraph_close"}
    THEN SkipRelated(tokens, current_index + 1)
    ELSE current_index

\* any(s['type'] == 'list_item_open' for s in sequence)
StartedWithListItem(sequence) ==
    \E i \in 1..Len(sequence) : sequence[i].type = "list_item_open"

\* The part of validate_block's loop body that follows a matched Step
\* (step_idx 0-based, current_index already past the matched token).
AfterStep(tokens, sequence, step_idx, current_index) ==
    IF At(tokens, current_index - 1).type
          \in {"heading_open", "paragraph_open", "list_item_open"}
    THEN IF StartedWithListItem(sequence) /\ step_idx + 1 = Len(sequence)
         THEN SkipListItem(tokens, current_index, 1)
         ELSE IF ~StartedWithListItem(sequence) \/ step_idx + 1 = Len(sequence)
         THEN SkipRelated(tokens, current_index)
         ELSE current_index
    ELSE current_index

\* A failed Step that keeps the tokens its predecessors consumed.
StepFailed_partial(token_index, current_index, sequence, step_idx, error) ==
    BlockResult(current_index - token_index,
                BlockError(DescribeStep(sequence[1]), step_idx + 1, error), -1)

\* if not success: return 0, f"In block starting with ..., step ... failed: ..."
StepFailed(token_index, current_index, sequence, step_idx, error) ==
    BlockResult(0, BlockError(DescribeStep(sequence[1]), step_idx + 1, error), -1)

RECURSIVE BlockFrom(_, _, _, _, _, _)
\* validate_block's loop from Step step_idx (0-based) on; last is the index
\* of the token matched by the Step before it.
BlockFrom(tokens, token_index, sequence, step_idx, current_index, last) ==
    IF step_idx >= Len(sequence)
    THEN BlockResult(current_index - token_index, NoBlockError, last)
    ELSE LET r == validate_sequence_step(tokens, current_index, sequence[step_idx + 1]) IN
         IF ~r.success
         THEN StepFailed(token_index, current_index, sequence, step_idx, r.error)
         ELSE BlockFrom(tokens, token_index, sequence, step_idx + 1,
                        AfterStep(tokens, sequence, step_idx, current_index + r.consumed),
                        current_index)

\* MarkdownValidator.validate_block
validate_block(tokens, token_index, block) ==
    BlockFrom(tokens, token_index, block.sequence, 0, token_index, -1)

\* ------------------------------------------------------ the inputs
AnyHeading == Step("heading_open", Absent, Absent, Absent)
H1 == Step("heading_open", Given(1), Absent, Absent)
H1Project == Step("heading_open", Given(1), Absent, Given(<<"Project">>))
AnyParagraph == Step("paragraph_open", Absent, Absent, Absent)
ListOpen == Step("bullet_list_open", Absent, Absent, Absent)
ItemOpen == Step("list_item_open", Absent, Absent, Absent)

\* The Blocks a spec.yaml is drawn from: the Block of the test suite, then
\* Blocks that differ from it in their sequence, bounds and error_level.
Blocks ==
    { Block(<<H1>>, 1, Given(1), "FATAL"),
      Block(<<H1Project>>, 1, Absent, "WARN"),
      Block(<<AnyHeading>>, 2, Absent, "FATAL"),
      Block(<<AnyHeading>>, 0, Given(0), "WARN"),
      Block(<<AnyHeading, AnyParagraph>>, 0, Absent, "FATAL"),
      Block(<<AnyParagraph>>, 1, Absent, "FATAL"),
      Block(<<AnyParagraph>>, 2, Given(1), "WARN"),
      Block(<<ListOpen, ItemOpen>>, 1, Given(1), "WARN"),
      Block(<<ListOpen, ItemOpen, AnyParagraph>>, 0, Absent, "WARN"),
      Block(<<ItemOpen>>, 1, Given(2), "FATAL") }

\* self.spec: None when spec.yaml could not be loaded
NoSpec == [loaded |-> FALSE, structure |-> <<>>]
LoadedSpec(structure) == [loaded |-> TRUE, structure |-> structure]

Specs == {NoSpec} \cup {LoadedSpec(st) : st \in SeqsUpTo(Blocks, MaxBlocks)}

FileNames == {"a.md", "b.md"}

\* ------------------------------------------------------------- paths
\* A path is the sequence of its parts.  A directory of the tree is absolute
\* and resolved; a link is relative, written with "/" between its parts, and
\* may hold "." and ".." parts.  No directory of the tree is a symbolic link.

\* Path.parent
Parent(path) == SubSeq(path, 1, Len(path) - 1)

\* Path.name
Name(path) == path[Len(path)]

RECURSIVE Resolve(_, _)
\* (base / link).resolve(), base being resolved already
Resolve(base, link) ==
    IF link = <<>> THEN base
    ELSE LET part == Head(link) IN
         Resolve(IF part = "." THEN base
                 ELSE IF part = ".."
                      THEN (IF base = <<>> THEN base ELSE Parent(base))
                      ELSE Append(base, part),
                 Tail(link))

RECURSIVE AsPosix(_)
\* Path(p).as_posix(): "." parts are dropped, ".." parts are kept
AsPosix(link) ==
    IF link = <<>> THEN <<>>
    ELSE IF Head(link) = "." THEN AsPosix(Tail(link))
         ELSE <<Head(link)>> \o AsPosix(Tail(link))

RECURSIVE CommonLen(_, _)
CommonLen(a, b) ==
    IF a = <<>> \/ b = <<>> THEN 0
    ELSE IF Head(a) # Head(b) THEN 0
         ELSE 1 + CommonLen(Tail(a), Tail(b))

\* os.path.relpath(path, start) of two resolved paths
RelPath(path, start) ==
    LET common == CommonLen(path, start) IN
    [i \in 1..(Len(start) - common) |-> ".."] \o SubSeq(path, common + 1, Len(path))

\* part.startswith('.')
StartsWithDot(part) == part \in {".", "..", ".hidden", ".notes.md"}

\* The lexemes of a file name, as a filename_regex sees them.
NameLexemes(name) ==
    CASE name = "a.md" -> <<"a", ".md">>
      [] name = "b.md" -> <<"b", ".md">>
      [] name = "retention.md" -> <<"retention", ".md">>
      [] name = "retention.txt" -> <<"retention", ".txt">>
      [] name = "retention.md.txt" -> <<"retention", ".md", ".txt">>
      [] name = "c.md" -> <<"c", ".md">>
      [] name = "h.md" -> <<"h", ".md">>
      [] name = ".notes.md" -> <<".notes", ".md">>
      [] name = "b.txt" -> <<"b", ".txt">>
      [] OTHER -> <<name>>

\* A regular expression may end in "$".
Anchored(regex) == regex # <<>> /\ regex[Len(regex)] = "$"

Unanchored(regex) ==
    IF Anchored(regex) THEN SubSeq(regex, 1, Len(regex) - 1) ELSE regex

\* re.fullmatch(regex, name)
ReFullMatch(regex, lexemes) == FullMatch(Unanchored(regex), lexemes)

\* re.compile(regex).match(name)
ReMatch(regex, lexemes) ==
    IF Anchored(regex) THEN FullMatch(Unanchored(regex), lexemes)
    ELSE PrefixMatch(regex, lexemes)

\* ------------------------------------------------------------- links.yaml
\* An allowed_targets rule.
Rule(directory, filename_regex) ==
    [directory |-> directory, filename_regex |-> filename_regex]

\* An item of established_links or required_links: a key and its list.
Entry(source, targets) == [source |-> source, targets |-> targets]

\* A links.yaml file: missing, not parseable, or the mapping that
\* yaml.safe_load returns, each of whose keys may be missing.  The mappings
\* established_links and required_links are the sequences of their items,
\* in the order of the file.
LinksYaml(state, allowed_targets, established_links, required_links) ==
    [state |-> state, allowed_targets |-> allowed_targets,
     established_links |-> established_links, required_links |-> required_links]

MissingYaml == LinksYaml("missing", Absent, Absent, Absent)
UnparseableYaml == LinksYaml("unparseable", Absent, Absent, Absent)
Mapping(allowed_targets, established_links, required_links) ==
    LinksYaml("mapping", allowed_targets, established_links, required_links)

\* the value is neither None nor an empty mapping
Truthy(data) ==
    /\ Has(data)
    /\ \/ Has(Val(data).allowed_targets)
       \/ Has(Val(data).established_links)
       \/ Has(Val(data).required_links)

\* mapping.get(key, [])
Get(items, key) ==
    IF \E i \in 1..Len(items) : items[i].source = key
    THEN items[CHOOSE i \in 1..Len(items) : items[i].source = key].targets
    ELSE <<>>

\* key in mapping
HasKey(items, key) == \E i \in 1..Len(items) : items[i].source = key

\* dict.get(key, default) of a key that may be missing
OrElse(opt, default) == IF Has(opt) THEN Val(opt) ELSE default

\* The directories and files of the tree.
Tree(files, yaml) == [files |-> files, yaml |-> yaml]

YamlOf(t, directory) ==
    IF directory \in DOMAIN t.yaml THEN t.yaml[directory] ELSE MissingYaml

\* Path.exists()
Exists(t, path) == path \in t.files \/ path \in DOMAIN t.yaml

\* Path.is_dir()
IsDir(t, path) == path \in DOMAIN t.yaml

\* ------------------------------------------------------------ validate_links
\* The directory verify-doc is run in; it is given as ".", so that
\* str(filepath) is the name of a file and filepath.parent resolves to it.
Cwd == <<"p", "docs">>

\* A link_open token.  MarkdownIt.parse returns the block tokens of a
\* document; the link_open tokens of a paragraph are children of its inline
\* token and are not among them.
LinkOpen(href, map) ==
    [type |-> "link_open", tag |-> "a", info |-> "", content |-> <<>>,
     map |-> map, attrs |-> [href |-> href]]

\* url.startswith(('http://', 'https://', 'mailto:', '#'))
External(url) == url # <<>> /\ Head(url) \in {"http:", "https:", "mailto:", "#"}

\* The link a lexeme of a text is, if it is one: "[g](guide.md)".
Href(lexeme) ==
    CASE lexeme = "[g](guide.md)" -> Given(<<"guide.md">>)
      [] lexeme = "[r](../rules/retention.md)" -> Given(<<"..", "rules", "retention.md">>)
      [] OTHER -> Absent

\* MarkdownValidator.extract_links_with_location
extract_links_with_location(tokens) ==
    LET Relative(token) == token.type = "link_open" /\ ~External(token.attrs.href)
        opens == SelectSeq(tokens, Relative)
    IN [i \in 1..Len(opens) |->
           [link |-> opens[i].attrs.href,
            line_num |-> IF Has(opens[i].map) THEN opens[i].map[1] + 1 ELSE 0]]

\* A diagnostic of validate_links: "Invalid link target '{link}'" at the
\* line of the link, or "Missing required link to '{req_link}'" at the last
\* line (Absent is 'EOF').
LinkMessage(file, kind, line, link) ==
    [file |-> file, kind |-> kind, line |-> line, link |-> link]

\* link_path.resolve().parent == target_dir.resolve()
\*    and filename_pattern.match(link_path.name), for some target
LinkValid(link, rules) ==
    \E i \in 1..Len(rules) :
       /\ Parent(Resolve(Cwd, link)) = Resolve(Cwd, rules[i].directory)
       /\ ReMatch(rules[i].filename_regex, NameLexemes(Name(link)))

\* the loop over links_with_locations: the warnings it appends
InvalidTargets(file, located, rules) ==
    LET Invalid(l) == ~LinkValid(l.link, rules)
        invalid == SelectSeq(located, Invalid)
    IN [i \in 1..Len(invalid) |->
           LinkMessage(file, "invalid", Given(invalid[i].line_num), invalid[i].link)]

\* tokens[-1].map[1] if tokens and tokens[-1].map else 'EOF'
LastLineOf(toks) ==
    IF toks # <<>> /\ Has(toks[Len(toks)].map)
    THEN Given(toks[Len(toks)].map[2]) ELSE Absent

\* the loop over required: the warnings it appends
MissingRequired(file, toks, all_links, required) ==
    LET Missing(req_link) == ~Contains(all_links, req_link)
        missing == SelectSeq(required, Missing)
    IN [i \in 1..Len(missing) |->
           LinkMessage(file, "missing", LastLineOf(toks), missing[i])]

\* MarkdownValidator.validate_links: the result it leaves
validate_links(file, toks, links, res) ==
    IF ~Truthy(links) THEN res
    ELSE LET located == extract_links_with_location(toks)
             all_links == [i \in 1..Len(located) |-> located[i].link]
             invalid == IF Has(Val(links).allowed_targets)
                        THEN InvalidTargets(file, located, Val(Val(links).allowed_targets))
                        ELSE <<>>
             missing == IF /\ Has(Val(links).required_links)
                           /\ HasKey(Val(Val(links).required_links), file)
                        THEN MissingRequired(file, toks, all_links,
                                             Get(Val(Val(links).required_links), file))
                        ELSE <<>>
         IN [res EXCEPT !.warnings = @ \o invalid \o missing]

\* ------------------------------------------------------------- state
VARIABLES
    spec,                 \* self.spec
    disk,                 \* the documents of the directory: file name -> content
    md_files,             \* the files validate_file is called on, in order
    file_no,              \* how many of them validate_file has been called on
    pc,                   \* where the validator is
    tokens,               \* validate_file: tokens
    result,               \* validate_file: result
    token_index,          \* validate_structure: token_index
    block_index,          \* validate_structure: position of block in the structure (from 1)
    matches,              \* validate_structure: matches
    returned,             \* what validate_structure returned, once it has
    files_with_errors,    \* verify_project: files_with_errors
    files_with_warnings,  \* verify_project: files_with_warnings
    exit_code,            \* what verify_project returned, once it has
    \* history, read by no action
    attempt,              \* the last Block attempt of the current file
    occurrences,          \* successful attempts of the current Block
    ended,                \* the Blocks of the current file whose loop has ended
    reported,             \* the Block behind each diagnostic of the current file
    finished,             \* the outcome of every validate_file call so far
    \* a direct call of validate_sequence_step
    step_in,              \* its arguments
    step_out,             \* what it returned, once it has
    \* verify-doc: the configuration of the project
    yaml_disk,            \* spec.yaml and links.yaml of the directory
    links_spec,           \* self.links_spec
    \* a direct call of validate_links
    links_in,             \* its arguments
    links_out,            \* the result it left, once it has returned
    \* verify-link, the link crawler and the file search
    tree,                 \* the directories: their files and links.yaml
    link_validator,       \* a LinkValidator and where its run is
    crawler,              \* a LinkCrawler and the calls of walk in progress
    found,                \* a call of find_markdown_files
    \* the link and unlink commands
    history               \* the last two commands run on the tree, in order

vars == << spec, disk, md_files, file_no, pc, tokens, result, token_index,
           block_index, matches, returned, files_with_errors,
           files_with_warnings, exit_code,
           attempt, occurrences, ended, reported, finished,
           step_in, step_out, yaml_disk, links_spec, links_in, links_out,
           tree, link_validator, crawler, found, history >>

stepVars == << step_in, step_out >>

docVars == << yaml_disk, links_spec >>

toolVars == << links_in, links_out, tree, link_validator, crawler, found,
              history >>

\* what the structural validator leaves alone
otherVars == << stepVars, docVars, toolVars >>

\* everything validate_file, verify_project and their steps work on
fileVars == << spec, disk, md_files, file_no, pc, tokens, result, token_index,
               block_index, matches, returned, files_with_errors,
               files_with_warnings, exit_code,
               attempt, occurrences, ended, reported, finished >>

\* ValidationResult(filename=...) sharing its lists with the previous result
ValidationResult_shared(filename) ==
    [filename |-> filename, errors |-> result.errors, warnings |-> result.warnings]

\* ValidationResult(filename=...): errors and warnings from default_factory=list
ValidationResult(filename) ==
    [filename |-> filename, errors |-> <<>>, warnings |-> <<>>]

\* before the first validate_file call there is no result
NoResult == [filename |-> "", errors |-> <<>>, warnings |-> <<>>]

has_errors(r) == Len(r.errors) > 0
has_warnings(r) == Len(r.warnings) > 0

NoCall == [tokens |-> <<>>, token_index |-> 0, step |-> Step("", Absent, Absent, Absent)]

NoAttempt == [made |-> FALSE, block |-> 0, before |-> 0, consumed |-> 0,
              failed_step |-> 0, last |-> -1]

\* LinkExitCode
OK == 0
ERRORS == 1
SYSTEM_ERROR == 16

\* A LinkValidator after __init__.
LinkValidator(directory, verbose) ==
    [directory |-> directory, verbose |-> verbose, pc |-> "idle",
     exit_code |-> OK, results |-> <<>>,
     summary |-> [total |-> 0, broken |-> 0, unidirectional |-> 0, disallowed |-> 0],
     links_yaml |-> Absent, edge_no |-> 0, returned |-> Absent,
     raised |-> {}]

NoLinkValidator == [LinkValidator(<<>>, FALSE) EXCEPT !.pc = "none"]

NoTree == Tree({}, <<>>)


\* ---------------------------------------------------- parts that are not running
NoYamlDisk == [spec |-> "none", structure |-> <<>>, links |-> MissingYaml]
NoLinksSpec == Absent
NoLinksCall == [file |-> "", tokens |-> <<>>, links_spec |-> Absent]
NoCrawler == [pc |-> "none", visited_dirs |-> {}, graph |-> {},
              reverse_graph |-> {}, stack |-> <<>>, loads |-> <<>>]
NoFound == [pc |-> "none", directory |-> <<>>, md_files |-> <<>>]
NoHistory == <<>>

\* no validate_file call is made
NoFiles ==
    /\ spec = NoSpec
    /\ md_files = <<>>
    /\ disk = <<>>
    /\ file_no = 0
    /\ pc = "none"
    /\ tokens = <<>>
    /\ result = NoResult
    /\ token_index = 0
    /\ block_index = 0
    /\ matches = 0
    /\ returned = Absent
    /\ files_with_errors = 0
    /\ files_with_warnings = 0
    /\ exit_code = Absent
    /\ attempt = NoAttempt
    /\ occurrences = 0
    /\ ended = <<>>
    /\ reported = <<>>
    /\ finished = <<>>

NoStepCall == step_in = NoCall /\ step_out = Absent

NoDocConfig == yaml_disk = NoYamlDisk /\ links_spec = NoLinksSpec

NoDirectLinks == links_in = NoLinksCall /\ links_out = Absent

NoTools ==
    /\ NoDirectLinks
    /\ tree = NoTree
    /\ link_validator = NoLinkValidator
    /\ crawler = NoCrawler
    /\ found = NoFound
    /\ history = NoHistory

InitWith(specs, docs, calls) ==
    /\ spec \in specs
    /\ md_files \in calls
    /\ disk \in [{md_files[i] : i \in 1..Len(md_files)} -> docs]
    /\ file_no = 0
    /\ pc = "idle"
    /\ tokens = <<>>
    /\ result = NoResult
    /\ token_index = 0
    /\ block_index = 0
    /\ matches = 0
    /\ returned = Absent
    /\ files_with_errors = 0
    /\ files_with_warnings = 0
    /\ exit_code = Absent
    /\ attempt = NoAttempt
    /\ occurrences = 0
    /\ ended = <<>>
    /\ reported = <<>>
    /\ finished = <<>>
    /\ step_in = NoCall
    /\ step_out = Absent
    /\ NoDocConfig
    /\ NoTools

\* One document checked against every spec.
Init == InitWith(Specs, Docs, {<<"a.md">>})

\* ------------------------------------------------------- validate_structure
\* A diagnostic: f"{filepath.name}: {error}" for a failed Block attempt,
\* f"{filepath.name}: line {last_line}: Expected the block ... to appear at
\* least {min_occur} time(s), but it appeared {matches} time(s)." otherwise.
Message(file, kind, block_error, line, first, min_occur, n) ==
    [file |-> file, kind |-> kind, block_error |-> block_error, line |-> line,
     first |-> first, min_occur |-> min_occur, matches |-> n]

\* tokens[-1].map[1] if tokens and tokens[-1].map else 'EOF'
LastLine(toks) ==
    IF toks # <<>> /\ Has(toks[Len(toks)].map)
    THEN Given(toks[Len(toks)].map[2]) ELSE Absent

CurrentBlock == spec.structure[block_index]

\* token_index = consumed
Advance_assign(index, consumed) == consumed

\* token_index += consumed
Advance(index, consumed) == index + consumed

\* matches <= min_occur
BelowMin_inclusive(n, min_occur) == n <= min_occur

\* matches < min_occur
BelowMin(n, min_occur) == n < min_occur

\* if consumed >= 0
Matched_any(consumed) == consumed >= 0

\* if consumed > 0: the attempt counts as a match
Matched(consumed) == consumed > 0

\* max_occur is not None and matches >= max_occur
MaxReached(n, max_occur) == Has(max_occur) /\ n >= Val(max_occur)

\* a comparison with ErrorLevel.FATAL that never holds
IsFatal_never(error_level) == FALSE

\* error_level == ErrorLevel.FATAL
IsFatal(error_level) == error_level = "FATAL"

\* error_level == ErrorLevel.WARN
IsWarn(error_level) == error_level = "WARN"

Ended == Append(ended, [block |-> block_index, count |-> occurrences,
                        at |-> token_index,
                        errors |-> Len(result.errors),
                        warnings |-> Len(result.warnings)])

\* The for loop of validate_structure: the Block after block_index, or
\* return True after the last one.
NextBlock ==
    IF block_index < Len(spec.structure)
    THEN /\ block_index' = block_index + 1
         /\ matches' = 0
         /\ occurrences' = 0
         /\ pc' = "loop"
         /\ returned' = returned
    ELSE /\ returned' = Given(TRUE)
         /\ pc' = "links"
         /\ UNCHANGED <<block_index, matches, occurrences>>

\* validate_file up to the first Block of validate_structure: the file is
\* read and parsed, the result is created, the cursor is set to 0.
ValidateFile ==
    /\ pc = "idle"
    /\ file_no < Len(md_files)
    /\ file_no' = file_no + 1
    /\ tokens' = Parse(disk[md_files[file_no + 1]], 0)
    /\ result' = ValidationResult(md_files[file_no + 1])
    /\ attempt' = NoAttempt
    /\ ended' = <<>>
    /\ reported' = <<>>
    /\ IF ~spec.loaded
       THEN /\ returned' = Given(TRUE)
            /\ pc' = "links"
            /\ UNCHANGED <<token_index, block_index, matches, occurrences>>
       ELSE /\ token_index' = 0
            /\ IF spec.structure = <<>>
               THEN /\ returned' = Given(TRUE)
                    /\ pc' = "links"
                    /\ UNCHANGED <<block_index, matches, occurrences>>
               ELSE /\ block_index' = 1
                    /\ matches' = 0
                    /\ occurrences' = 0
                    /\ returned' = Absent
                    /\ pc' = "loop"
    /\ UNCHANGED <<spec, disk, md_files, files_with_errors, files_with_warnings,
                   exit_code, finished>>
    /\ UNCHANGED otherVars

\* One pass of the while loop in which validate_block consumes tokens.
BlockMatched ==
    /\ pc = "loop"
    /\ token_index < Len(tokens)
    /\ LET r == validate_block(tokens, token_index, CurrentBlock) IN
       /\ Matched(r.consumed)
       /\ matches' = matches + 1
       /\ token_index' = Advance(token_index, r.consumed)
       /\ pc' = IF MaxReached(matches + 1, CurrentBlock.max_occurrences)
                THEN "after" ELSE "loop"
       /\ attempt' = [made |-> TRUE, block |-> block_index, before |-> token_index,
                      consumed |-> r.consumed, failed_step |-> r.error.step_no,
                      last |-> r.last]
       /\ occurrences' = occurrences + 1
    /\ UNCHANGED <<spec, disk, md_files, file_no, tokens, result, block_index,
                   returned, files_with_errors, files_with_warnings, exit_code,
                   ended, reported, finished>>
    /\ UNCHANGED otherVars

\* One pass of the while loop in which validate_block consumes nothing.
BlockFailed ==
    /\ pc = "loop"
    /\ token_index < Len(tokens)
    /\ LET r == validate_block(tokens, token_index, CurrentBlock)
           message == Message(result.filename, "block", r.error, Absent, NoDesc, 0, 0)
       IN
       /\ ~Matched(r.consumed)
       /\ attempt' = [made |-> TRUE, block |-> block_index, before |-> token_index,
                      consumed |-> r.consumed, failed_step |-> r.error.step_no,
                      last |-> r.last]
       /\ IF BelowMin(matches, CurrentBlock.min_occurrences)
          THEN /\ IF IsFatal(CurrentBlock.error_level)
                  THEN /\ result' = [result EXCEPT !.errors = Append(@, message)]
                       /\ returned' = Given(FALSE)
                       /\ pc' = "tally"
                  ELSE /\ result' = [result EXCEPT !.warnings = Append(@, message)]
                       /\ returned' = Given(TRUE)
                       /\ pc' = "links"
               /\ reported' = Append(reported, block_index)
               /\ ended' = Ended
          ELSE /\ pc' = "after"
               /\ UNCHANGED <<result, returned, reported, ended>>
    /\ UNCHANGED <<spec, disk, md_files, file_no, tokens, token_index, block_index,
                   matches, files_with_errors, files_with_warnings, exit_code,
                   occurrences, finished>>
    /\ UNCHANGED otherVars

\* The while condition fails: no token is left.
TokensExhausted ==
    /\ pc = "loop"
    /\ token_index >= Len(tokens)
    /\ pc' = "after"
    /\ UNCHANGED <<spec, disk, md_files, file_no, tokens, result, token_index,
                   block_index, matches, returned, files_with_errors,
                   files_with_warnings, exit_code, attempt, occurrences, ended,
                   reported, finished>>
    /\ UNCHANGED otherVars

\* After the while loop: the occurrence check of the Block, then the next Block.
\* block['sequence'][0] of an empty sequence raises IndexError, which
\* validate_file catches: it appends "Failed to process file: ..." to the
\* errors and returns the result.
AfterLoop ==
    /\ pc = "after"
    /\ ended' = Ended
    /\ LET block == CurrentBlock
           message == Message(result.filename, "occurrences", NoBlockError,
                              LastLine(tokens), DescribeStep(block.sequence[1]),
                              block.min_occurrences, matches)
           failed == Message("", "exception", NoBlockError, Absent, NoDesc, 0, 0)
       IN
       IF BelowMin(matches, block.min_occurrences)
       THEN IF block.sequence = <<>>
            THEN /\ result' = [result EXCEPT !.errors = Append(@, failed)]
                 /\ returned' = Absent
                 /\ pc' = "tally"
                 /\ UNCHANGED <<block_index, matches, occurrences, reported>>
            ELSE IF IsFatal(block.error_level) /\ ~Contains(result.errors, message)
            THEN /\ result' = [result EXCEPT !.errors = Append(@, message)]
                 /\ reported' = Append(reported, block_index)
                 /\ returned' = Given(FALSE)
                 /\ pc' = "tally"
                 /\ UNCHANGED <<block_index, matches, occurrences>>
            ELSE IF IsWarn(block.error_level) /\ ~Contains(result.warnings, message)
            THEN /\ result' = [result EXCEPT !.warnings = Append(@, message)]
                 /\ reported' = Append(reported, block_index)
                 /\ NextBlock
            ELSE /\ UNCHANGED <<result, reported>>
                 /\ NextBlock
       ELSE /\ UNCHANGED <<result, reported>>
            /\ NextBlock
    /\ UNCHANGED <<spec, disk, md_files, file_no, tokens, token_index,
                   files_with_errors, files_with_warnings, exit_code, attempt,
                   finished>>
    /\ UNCHANGED otherVars

\* validate_structure returned True: validate_links(filepath, tokens, result)
ValidateLinks ==
    /\ pc = "links"
    /\ result' = validate_links(result.filename, tokens, links_spec, result)
    /\ pc' = "tally"
    /\ UNCHANGED <<spec, disk, md_files, file_no, tokens, token_index,
                   block_index, matches, returned, files_with_errors,
                   files_with_warnings, exit_code, attempt, occurrences, ended,
                   reported, finished>>
    /\ UNCHANGED otherVars

\* ----------------------------------------------------------- verify_project
\* return 1 when there are files with errors
ExitCode_warn(with_errors, with_warnings) ==
    IF with_errors > 0 THEN 1 ELSE IF with_warnings > 0 THEN 1 ELSE 0

\* The code verify_project returns.
ExitCode(with_errors, with_warnings) ==
    IF with_errors > 0 THEN 2 ELSE IF with_warnings > 0 THEN 1 ELSE 0

\* validate_file has returned: the file is counted.
Tally ==
    /\ pc = "tally"
    /\ files_with_errors' = files_with_errors + (IF has_errors(result) THEN 1 ELSE 0)
    /\ files_with_warnings' = files_with_warnings + (IF has_warnings(result) THEN 1 ELSE 0)
    /\ finished' = Append(finished, [file |-> result.filename,
                                     errors |-> result.errors,
                                     warnings |-> result.warnings,
                                     returned |-> returned])
    /\ pc' = "idle"
    /\ UNCHANGED <<spec, disk, md_files, file_no, tokens, result, token_index,
                   block_index, matches, returned, exit_code, attempt,
                   occurrences, ended, reported>>
    /\ UNCHANGED otherVars

\* No file is left (or none was found): the exit code.
Exit ==
    /\ pc = "idle"
    /\ file_no = Len(md_files)
    /\ exit_code' = IF md_files = <<>> THEN Given(0)
                    ELSE Given(ExitCode(files_with_errors, files_with_warnings))
    /\ pc' = "done"
    /\ UNCHANGED <<spec, disk, md_files, file_no, tokens, result, token_index,
                   block_index, matches, returned, files_with_errors,
                   files_with_warnings, attempt, occurrences, ended, reported,
                   finished>>
    /\ UNCHANGED otherVars

Next ==
    \/ ValidateFile
    \/ BlockMatched
    \/ BlockFailed
    \/ TokensExhausted
    \/ AfterLoop
    \/ ValidateLinks
    \/ Tally
    \/ Exit

Spec == Init /\ [][Next]_vars

\* ------------------------------------- validate_sequence_step, called alone
\* The Steps and token streams a direct call is made with: every combination
\* of the optional keys on every token kind.
StepTypes == {"heading_open", "paragraph_open", "fence", "inline"}
StepLevels == {Absent, Given(1), Given(2)}
StepInfos == {Absent, Given("py")}
StepRegexes == {Absent, Given(<<"Project">>), Given(<<"Project", ".*">>)}

Steps ==
    { Step(t, l, i, r) : t \in StepTypes, l \in StepLevels,
                         i \in StepInfos, r \in StepRegexes }

StepStreams ==
    { Heading(1, <<"Project">>),
      Heading(1, <<"Project", " ", "x">>),
      Heading(2, <<"Project">>),
      Paragraph(<<"Project">>, 0),
      Paragraph(<<"x", " ", "Project">>, 0),
      Fence("py", <<"Project">>),
      Fence("js", <<"Project", " ", "x">>),
      Fence("", <<>>) }

InitStep ==
    /\ spec = NoSpec
    /\ md_files = <<>>
    /\ disk = <<>>
    /\ file_no = 0
    /\ pc = "call"
    /\ tokens = <<>>
    /\ result = NoResult
    /\ token_index = 0
    /\ block_index = 0
    /\ matches = 0
    /\ returned = Absent
    /\ files_with_errors = 0
    /\ files_with_warnings = 0
    /\ exit_code = Absent
    /\ attempt = NoAttempt
    /\ occurrences = 0
    /\ ended = <<>>
    /\ reported = <<>>
    /\ finished = <<>>
    /\ \E ts \in StepStreams, st \in Steps :
          \E i \in 0..Len(ts) :
             step_in = [tokens |-> ts, token_index |-> i, step |-> st]
    /\ step_out = Absent
    /\ NoDocConfig
    /\ NoTools

\* validate_sequence_step(tokens, token_index, step)
CallStep ==
    /\ pc = "call"
    /\ step_out = Absent
    /\ step_out' = Given(validate_sequence_step(step_in.tokens, step_in.token_index,
                                                step_in.step))
    /\ pc' = "called"
    /\ UNCHANGED <<spec, disk, md_files, file_no, tokens, result, token_index,
                   block_index, matches, returned, files_with_errors,
                   files_with_warnings, exit_code, attempt, occurrences, ended,
                   reported, finished, step_in>>
    /\ UNCHANGED <<docVars, toolVars>>

NextStep == CallStep

SpecStep == InitStep /\ [][NextStep]_vars

\* --------------------------------------------- several files, one validator
\* Runs in which validate_file is called on up to MaxFiles files, a file
\* possibly more than once, with small documents and specs.
ProjectBlocks ==
    { Block(<<H1>>, 1, Given(1), "FATAL"),
      Block(<<AnyParagraph>>, 2, Given(1), "WARN") }

ProjectConstructs ==
    { Construct(Heading(1, <<"Project">>), 2),
      Construct(Paragraph(<<"x">>, 0), 2) }

ProjectSpecs ==
    {NoSpec} \cup {LoadedSpec(st) : st \in SeqsUpTo(ProjectBlocks, MaxBlocks)}

ProjectDocs == SeqsUpTo(ProjectConstructs, MaxProjectConstructs)

InitProject == InitWith(ProjectSpecs, ProjectDocs, SeqsUpTo(FileNames, MaxFiles))

SpecProject == InitProject /\ [][Next]_vars

\* ===================================================== verify-link
RECURSIVE BitOr(_, _)
\* a | b
BitOr(a, b) ==
    IF a = 0 THEN b
    ELSE IF b = 0 THEN a
    ELSE (IF a % 2 = 1 \/ b % 2 = 1 THEN 1 ELSE 0) + 2 * BitOr(a \div 2, b \div 2)

\* bit flag of code is set
HasFlag(code, flag) == (code \div flag) % 2 = 1

\* self.exit_code = flag
add_exit_flag_assign(code, flag) == flag

\* LinkValidator._add_exit_flag: self.exit_code |= flag
add_exit_flag(code, flag) == BitOr(code, flag)

\* LinkValidator._load_links_yaml: the mapping or None, and whether the
\* SYSTEM_ERROR flag was added on the way
load_links_yaml(t, directory) ==
    LET file == YamlOf(t, directory) IN
    IF file.state = "missing" THEN [data |-> Absent, failed |-> FALSE]
    ELSE IF file.state = "unparseable" THEN [data |-> Absent, failed |-> TRUE]
    ELSE [data |-> Given(file), failed |-> FALSE]

\* a rule list that is empty allows every link, as in _check_link_is_allowed
check_allowed_target_open(target_link, source_dir, rules) ==
    LET target_abs == Resolve(source_dir, target_link) IN
    \/ rules = <<>>
    \/ \E i \in 1..Len(rules) :
          /\ Parent(target_abs) = Resolve(source_dir, rules[i].directory)
          /\ ReFullMatch(rules[i].filename_regex, NameLexemes(Name(target_abs)))

\* LinkValidator._check_allowed_target
check_allowed_target(target_link, source_dir, rules) ==
    LET target_abs == Resolve(source_dir, target_link) IN
    \E i \in 1..Len(rules) :
       /\ Parent(target_abs) = Resolve(source_dir, rules[i].directory)
       /\ ReFullMatch(rules[i].filename_regex, NameLexemes(Name(target_abs)))

\* the entries of the target compared as they are written
EstablishedInTarget_raw(entries) == entries

\* [Path(p.replace('\\', '/')).as_posix() for p in ...]
EstablishedInTarget(entries) == [i \in 1..Len(entries) |-> AsPosix(entries[i])]

\* LinkValidator._check_bidirectional: the status, what it adds to
\* summary['unidirectional'] and whether SYSTEM_ERROR was added
check_bidirectional(t, target_link, source_file, source_dir) ==
    LET target_path == Resolve(source_dir, target_link)
        loaded == load_links_yaml(t, Parent(target_path))
        source_path == Resolve(source_dir, <<source_file>>)
        relative_back_path == AsPosix(RelPath(source_path, Parent(target_path)))
    IN
    IF ~Truthy(loaded.data) \/ ~Has(Val(loaded.data).established_links)
    THEN [status |-> "INFO", unidirectional |-> 0, failed |-> loaded.failed]
    ELSE IF Contains(EstablishedInTarget(
                        Get(Val(Val(loaded.data).established_links), Name(target_path))),
                     relative_back_path)
    THEN [status |-> "PASS", unidirectional |-> 0, failed |-> FALSE]
    ELSE [status |-> "FAIL", unidirectional |-> 1, failed |-> FALSE]

\* the bidirectional check made although the target is missing
BidiOf_always(t, exists, target_link, source_file, source_dir) ==
    check_bidirectional(t, target_link, source_file, source_dir)

\* the else branch of the existence check of _perform_all_checks
BidiOf(t, exists, target_link, source_file, source_dir) ==
    IF exists THEN check_bidirectional(t, target_link, source_file, source_dir)
    ELSE [status |-> "SKIPPED", unidirectional |-> 0, failed |-> FALSE]

\* LinkValidationDetail, the statuses of its results
Detail(source_file, target_link, allowed, exists, bidi) ==
    [source_file |-> source_file, target_link |-> target_link,
     results |-> [allowed |-> allowed, exists |-> exists, bidi |-> bidi]]

PassOrFail(ok) == IF ok THEN "PASS" ELSE "FAIL"

RECURSIVE Edges(_)
\* the (source_file, target_link) pairs the two for loops of
\* _perform_all_checks visit, in their order; a source whose list is empty
\* is passed over
Edges(established_links) ==
    IF established_links = <<>> THEN <<>>
    ELSE LET item == Head(established_links) IN
         [i \in 1..Len(item.targets) |->
             [source_file |-> item.source, target_link |-> item.targets[i]]]
         \o Edges(Tail(established_links))

\* The body of the inner loop of _perform_all_checks for one pair: the
\* detail, what it adds to the summary, and the flags it passes to
\* _add_exit_flag, in order.
CheckPair(t, directory, allowed_targets, source_file, target_link) ==
    LET allowed == check_allowed_target(target_link, directory, allowed_targets)
        exists == Exists(t, Resolve(directory, target_link))
        bidi == BidiOf(t, exists, target_link, source_file, directory)
    IN [detail |-> Detail(source_file, target_link, PassOrFail(allowed),
                          PassOrFail(exists), bidi.status),
        disallowed |-> IF allowed THEN 0 ELSE 1,
        broken |-> IF exists THEN 0 ELSE 1,
        unidirectional |-> bidi.unidirectional,
        flags |-> (IF allowed THEN <<>> ELSE <<ERRORS>>)
                  \o (IF exists THEN <<>> ELSE <<ERRORS>>)
                  \o (IF bidi.failed THEN <<SYSTEM_ERROR>> ELSE <<>>)
                  \o (IF bidi.status = "FAIL" THEN <<ERRORS>> ELSE <<>>)]

RECURSIVE AddFlags(_, _)
\* _add_exit_flag called with each flag in turn
AddFlags(code, flags) ==
    IF flags = <<>> THEN code
    ELSE AddFlags(add_exit_flag(code, Head(flags)), Tail(flags))

Flags(flags) == {flags[i] : i \in 1..Len(flags)}

\* the directories _build_link_graph loads a links.yaml from
DirsToScan(t, directory, links_yaml) ==
    {directory} \cup
    IF Has(links_yaml.allowed_targets)
    THEN LET rules == Val(links_yaml.allowed_targets) IN
         { Resolve(directory, rules[i].directory) : i \in
             { j \in 1..Len(rules) : IsDir(t, Resolve(directory, rules[j].directory)) } }
    ELSE {}


\* ---------------------------------------------------------- LinkValidator.run
\* run up to the first pair of _perform_all_checks: links.yaml of the
\* directory is looked for and loaded.
Run ==
    /\ link_validator.pc = "idle"
    /\ LET v == link_validator
           loaded == load_links_yaml(tree, v.directory)
           flags == IF loaded.failed THEN <<SYSTEM_ERROR>> ELSE <<>>
           w == [v EXCEPT !.exit_code = AddFlags(@, flags),
                          !.raised = @ \cup Flags(flags)]
       IN
       IF YamlOf(tree, v.directory).state = "missing"
       THEN link_validator' = [v EXCEPT !.returned = Given(SYSTEM_ERROR), !.pc = "done"]
       ELSE IF ~Truthy(loaded.data)
       THEN link_validator' = [w EXCEPT !.returned = Given(SYSTEM_ERROR), !.pc = "done"]
       ELSE link_validator' =
               [w EXCEPT !.links_yaml = loaded.data,
                         !.edge_no = 1,
                         !.pc = IF Edges(OrElse(Val(loaded.data).established_links, <<>>)) = <<>>
                                THEN "report" ELSE "checks"]
    /\ UNCHANGED <<fileVars, stepVars, docVars, links_in, links_out, tree, crawler, found, history>>

\* One pass of the inner loop of _perform_all_checks.
CheckEdge ==
    /\ link_validator.pc = "checks"
    /\ LET v == link_validator
           links_yaml == Val(v.links_yaml)
           edges == Edges(OrElse(links_yaml.established_links, <<>>))
           edge == edges[v.edge_no]
           r == CheckPair(tree, v.directory, OrElse(links_yaml.allowed_targets, <<>>),
                          edge.source_file, edge.target_link)
       IN link_validator' =
             [v EXCEPT !.summary = [total |-> @.total + 1,
                                    broken |-> @.broken + r.broken,
                                    unidirectional |-> @.unidirectional + r.unidirectional,
                                    disallowed |-> @.disallowed + r.disallowed],
                       !.exit_code = AddFlags(@, r.flags),
                       !.raised = @ \cup Flags(r.flags),
                       !.results = Append(@, r.detail),
                       !.edge_no = @ + 1,
                       !.pc = IF v.edge_no = Len(edges) THEN "report" ELSE "checks"]
    /\ UNCHANGED <<fileVars, stepVars, docVars, links_in, links_out, tree, crawler, found, history>>

\* The report and the return of run: the summary report builds the link
\* graph, which loads the links.yaml of the directory and of every rule's
\* directory; the verbose report reads the results only.
Report ==
    /\ link_validator.pc = "report"
    /\ LET v == link_validator
           unreadable == IF v.verbose THEN {}
                         ELSE { d \in DirsToScan(tree, v.directory, Val(v.links_yaml)) :
                                   load_links_yaml(tree, d).failed }
           flags == IF unreadable = {} THEN <<>> ELSE <<SYSTEM_ERROR>>
           code == AddFlags(v.exit_code, flags)
       IN link_validator' = [v EXCEPT !.exit_code = code,
                                      !.raised = @ \cup Flags(flags),
                                      !.returned = Given(code),
                                      !.pc = "done"]
    /\ UNCHANGED <<fileVars, stepVars, docVars, links_in, links_out, tree, crawler, found, history>>

RECURSIVE CheckAll(_, _, _, _, _)
\* self.exit_code after _perform_all_checks has gone through the pairs
CheckAll(t, directory, allowed_targets, edges, code) ==
    IF edges = <<>> THEN code
    ELSE CheckAll(t, directory, allowed_targets, Tail(edges),
                  AddFlags(code, CheckPair(t, directory, allowed_targets,
                                           Head(edges).source_file,
                                           Head(edges).target_link).flags))

\* LinkValidator.run as a function of the tree and the output mode: the
\* value it returns
run(t, directory, verbose) ==
    LET loaded == load_links_yaml(t, directory) IN
    IF YamlOf(t, directory).state = "missing" \/ ~Truthy(loaded.data)
    THEN SYSTEM_ERROR
    ELSE LET links_yaml == Val(loaded.data)
             checked == CheckAll(t, directory,
                                 OrElse(links_yaml.allowed_targets, <<>>),
                                 Edges(OrElse(links_yaml.established_links, <<>>)),
                                 OK)
             unreadable == IF verbose THEN {}
                           ELSE { d \in DirsToScan(t, directory, links_yaml) :
                                     load_links_yaml(t, d).failed }
         IN AddFlags(checked, IF unreadable = {} THEN <<>> ELSE <<SYSTEM_ERROR>>)

\* ------------------------------------------------ the trees verify-link runs on
MaxLinks == 2           \* target links of one source file in established_links

ProjectDir == <<"p">>
DocsDir == <<"p", "docs">>
RulesDir == <<"p", "rules">>
OldDir == <<"p", "rules", "old">>

TreeDirs == {ProjectDir, DocsDir, RulesDir, OldDir}

\* the files that may exist besides docs/a.md and rules/old/retention.md
OtherFiles == { DocsDir \o <<"b.md">>, RulesDir \o <<"retention.md">> }

\* the target links of docs/links.yaml: a file of the directory, the files
\* ../rules/retention.md and ../rules/retention.txt, a file of a subdirectory
LinkTexts ==
    { <<"b.md">>, <<"..", "rules", "retention.md">>,
      <<"..", "rules", "retention.txt">>,
      <<"..", "rules", "old", "retention.md">> }

RetentionRule == Rule(<<"..", "rules">>, <<"retention", ".md">>)
HereRule == Rule(<<".">>, <<".*", ".md", "$">>)

RuleLists == { <<>>, <<RetentionRule>>, <<HereRule>>, <<HereRule, RetentionRule>> }

\* established_links of docs/links.yaml: a.md with its target links, and
\* possibly b.md linking back to a.md
DocsEstablished ==
    { <<Entry("a.md", ts)>> : ts \in SeqsUpTo(LinkTexts, MaxLinks) }
    \cup { <<Entry("a.md", ts), Entry("b.md", << <<"a.md">> >>)>> :
             ts \in SeqsUpTo(LinkTexts, MaxLinks) }
    \cup { <<>> }

DocsYamls ==
    { MissingYaml, UnparseableYaml, Mapping(Absent, Absent, Absent) }
    \cup { Mapping(a, e, Absent) :
             a \in {Absent} \cup {Given(rs) : rs \in RuleLists},
             e \in {Absent} \cup {Given(es) : es \in DocsEstablished} }

\* rules/links.yaml: what it says about retention.md
RulesYamls ==
    { MissingYaml, UnparseableYaml,
      Mapping(Given(<<>>), Absent, Absent),
      Mapping(Absent, Given(<<>>), Absent),
      Mapping(Absent, Given(<<Entry("retention.md", << <<"..", "docs", "a.md">> >>)>>), Absent),
      Mapping(Absent, Given(<<Entry("retention.md", << <<".", "..", "docs", "a.md">> >>)>>), Absent),
      Mapping(Absent, Given(<<Entry("retention.md", << <<"..", "docs", "b.md">> >>)>>), Absent) }

LinkTrees ==
    { Tree({DocsDir \o <<"a.md">>, OldDir \o <<"retention.md">>} \cup fs,
           [d \in TreeDirs |-> IF d = DocsDir THEN dy
                               ELSE IF d = RulesDir THEN ry ELSE MissingYaml]) :
        fs \in SUBSET OtherFiles, dy \in DocsYamls, ry \in RulesYamls }

\* verify-link docs, with and without --verbose
InitLink ==
    /\ NoFiles
    /\ NoStepCall
    /\ NoDocConfig
    /\ NoDirectLinks
    /\ tree \in LinkTrees
    /\ link_validator \in {LinkValidator(DocsDir, verbose) : verbose \in BOOLEAN}
    /\ crawler = NoCrawler
    /\ found = NoFound
    /\ history = NoHistory

NextLink == Run \/ CheckEdge \/ Report

SpecLink == InitLink /\ [][NextLink]_vars

\* ================================================= verify-doc, from its start
\* A Block as spec.yaml writes it: every key but sequence may be missing.
YamlBlock(sequence, min_occurrences, max_occurrences, error_level) ==
    [sequence |-> sequence, min_occurrences |-> min_occurrences,
     max_occurrences |-> max_occurrences, error_level |-> error_level]

\* the three setdefault calls of load_spec
SetDefaults(block) ==
    Block(block.sequence, OrElse(block.min_occurrences, 1),
          block.max_occurrences, OrElse(block.error_level, "FATAL"))

\* spec.yaml and links.yaml of the directory: spec.yaml is missing, not
\* parseable, or a mapping with a structure.
YamlDisk(state, structure, links) ==
    [spec |-> state, structure |-> structure, links |-> links]

\* MarkdownValidator.load_spec: self.spec
load_spec(files) ==
    IF files.spec = "mapping"
    THEN LoadedSpec([i \in 1..Len(files.structure) |-> SetDefaults(files.structure[i])])
    ELSE NoSpec

\* MarkdownValidator.load_links_spec: self.links_spec
load_links_spec(files) ==
    IF files.links.state = "mapping" THEN Given(files.links) ELSE Absent

\* verify_project: self.load_spec(directory / 'spec.yaml')
LoadSpec ==
    /\ pc = "start"
    /\ spec' = load_spec(yaml_disk)
    /\ pc' = "load_links"
    /\ UNCHANGED <<disk, md_files, file_no, tokens, result, token_index,
                   block_index, matches, returned, files_with_errors,
                   files_with_warnings, exit_code, attempt, occurrences, ended,
                   reported, finished>>
    /\ UNCHANGED otherVars

\* verify_project: self.load_links_spec(directory / 'links.yaml')
LoadLinksSpec ==
    /\ pc = "load_links"
    /\ links_spec' = load_links_spec(yaml_disk)
    /\ pc' = "idle"
    /\ UNCHANGED <<spec, disk, md_files, file_no, tokens, result, token_index,
                   block_index, matches, returned, files_with_errors,
                   files_with_warnings, exit_code, attempt, occurrences, ended,
                   reported, finished>>
    /\ UNCHANGED <<stepVars, yaml_disk, toolVars>>

MaxRequired == 2        \* required links of one file in required_links

VerifyBlocks ==
    { YamlBlock(<<H1>>, Absent, Given(1), Absent),
      YamlBlock(<<AnyParagraph>>, Given(2), Given(1), Given("WARN")) }

\* documents: a heading, a paragraph, a paragraph that is a link to guide.md
VerifyConstructs ==
    { Construct(Heading(1, <<"Project">>), 2),
      Construct(Paragraph(<<"x">>, 0), 2),
      Construct(Paragraph(<<"[g](guide.md)">>, 0), 2) }

VerifyDocs == SeqsUpTo(VerifyConstructs, MaxProjectConstructs)

RequiredTexts == { <<"guide.md">>, <<"..", "rules", "retention.md">> }

VerifyLinksYamls ==
    { MissingYaml, UnparseableYaml, Mapping(Absent, Absent, Absent) }
    \cup { Mapping(a, Absent, r) :
             a \in {Absent, Given(<<HereRule>>)},
             r \in {Absent} \cup
                   { Given(<<Entry("a.md", reqs)>>) :
                        reqs \in SeqsUpTo(RequiredTexts, MaxRequired) } }

YamlDisks ==
    { YamlDisk(st, <<>>, l) : st \in {"missing", "unparseable"}, l \in VerifyLinksYamls }
    \cup { YamlDisk("mapping", bs, l) :
             bs \in SeqsUpTo(VerifyBlocks, MaxBlocks), l \in VerifyLinksYamls }

\* verify-doc in a directory with up to two documents
InitVerify ==
    /\ spec = NoSpec
    /\ md_files \in {<<>>, <<"a.md">>, <<"a.md", "b.md">>}
    /\ disk \in [{md_files[i] : i \in 1..Len(md_files)} -> VerifyDocs]
    /\ file_no = 0
    /\ pc = "start"
    /\ tokens = <<>>
    /\ result = NoResult
    /\ token_index = 0
    /\ block_index = 0
    /\ matches = 0
    /\ returned = Absent
    /\ files_with_errors = 0
    /\ files_with_warnings = 0
    /\ exit_code = Absent
    /\ attempt = NoAttempt
    /\ occurrences = 0
    /\ ended = <<>>
    /\ reported = <<>>
    /\ finished = <<>>
    /\ NoStepCall
    /\ yaml_disk \in YamlDisks
    /\ links_spec = NoLinksSpec
    /\ NoTools

NextVerify == LoadSpec \/ LoadLinksSpec \/ Next

SpecVerify == InitVerify /\ [][NextVerify]_vars

\* ------------------------------------------------ validate_links, called alone
DirectHrefs ==
    { <<"guide.md">>, <<"..", "rules", "retention.md">>,
      <<"..", "rules", "retention.md.txt">>,
      <<"..", "rules", "old", "retention.md">>,
      <<"https:", "example.com">> }

DirectStreams ==
    { [i \in 1..Len(hs) |-> LinkOpen(hs[i], <<i - 1, i>>)] :
         hs \in SeqsUpTo(DirectHrefs, MaxLinks) }

DirectLinksSpecs ==
    {Absent} \cup
    { Given(Mapping(a, Absent, r)) :
         a \in {Absent} \cup {Given(rs) : rs \in RuleLists},
         r \in {Absent, Given(<<Entry("a.md", << <<"guide.md">> >>)>>)} }

InitLinks ==
    /\ NoFiles
    /\ NoStepCall
    /\ NoDocConfig
    /\ links_in \in { [file |-> "a.md", tokens |-> ts, links_spec |-> ls] :
                         ts \in DirectStreams, ls \in DirectLinksSpecs }
    /\ links_out = Absent
    /\ tree = NoTree
    /\ link_validator = NoLinkValidator
    /\ crawler = NoCrawler
    /\ found = NoFound
    /\ history = NoHistory

\* validate_links(filepath, tokens, result) on a new result
CallLinks ==
    /\ links_out = Absent
    /\ links_in # NoLinksCall
    /\ links_out' = Given(validate_links(links_in.file, links_in.tokens,
                                         links_in.links_spec,
                                         [filename |-> links_in.file,
                                          errors |-> <<>>, warnings |-> <<>>]))
    /\ UNCHANGED <<fileVars, stepVars, docVars, links_in, tree, link_validator,
                   crawler, found, history>>

NextLinks == CallLinks

SpecLinks == InitLinks /\ [][NextLinks]_vars

\* ======================================================= LinkCrawler.walk
\* LinkCrawler._read_links_yaml: None for a missing file and for any exception
read_links_yaml(t, directory) ==
    IF YamlOf(t, directory).state = "mapping"
    THEN Given(YamlOf(t, directory)) ELSE Absent

\* LinkCrawler._resolve_link_path: the resolved target, None when it does
\* not exist
resolve_link_path(t, source_dir, link) ==
    IF Exists(t, Resolve(source_dir, link))
    THEN Given(Resolve(source_dir, link)) ELSE Absent

\* a visited set that is never consulted
Visited_never(directory, visited_dirs) == FALSE

\* directory in self.visited_dirs
Visited(directory, visited_dirs) == directory \in visited_dirs

\* A call of walk in progress: at its start ("call"), or in its loops with
\* the (source, target link) pairs still to visit.
Frame(directory, at, todo) == [directory |-> directory, at |-> at, todo |-> todo]

\* A LinkCrawler after __init__ and the call walk(start_dir) about to start;
\* loads counts the reads of each directory's links.yaml.
LinkCrawler(t, start_dir) ==
    [pc |-> "walking", visited_dirs |-> {}, graph |-> {}, reverse_graph |-> {},
     stack |-> <<Frame(start_dir, "call", <<>>)>>,
     loads |-> [d \in DOMAIN t.yaml |-> 0]]

Top == crawler.stack[Len(crawler.stack)]

Pop == SubSeq(crawler.stack, 1, Len(crawler.stack) - 1)

\* the return of a call of walk
Returned(c) ==
    [c EXCEPT !.stack = Pop, !.pc = IF Len(crawler.stack) = 1 THEN "done" ELSE @]

\* walk up to its loops: the visited test, the mark, the read of links.yaml
Walk ==
    /\ crawler.pc = "walking"
    /\ Top.at = "call"
    /\ LET directory == Top.directory
           links_data == read_links_yaml(tree, directory)
           marked == [crawler EXCEPT !.visited_dirs = @ \cup {directory},
                                     !.loads[directory] = @ + 1]
       IN
       IF Visited(directory, crawler.visited_dirs)
       THEN crawler' = Returned(crawler)
       ELSE IF ~Truthy(links_data)
       THEN crawler' = Returned(marked)
       ELSE IF OrElse(Val(links_data).established_links, <<>>) = <<>>
       THEN crawler' = Returned(marked)
       ELSE crawler' =
               [marked EXCEPT !.stack[Len(crawler.stack)] =
                   Frame(directory, "loop",
                         Edges(Val(Val(links_data).established_links)))]
    /\ UNCHANGED <<fileVars, stepVars, docVars, links_in, links_out, tree,
                   link_validator, found, history>>

\* One pass of the inner loop of walk: the target link is resolved, the edge
\* is added to graph and reverse_graph, and walk is called on the directory
\* of the target when it is another directory.
WalkTarget ==
    /\ crawler.pc = "walking"
    /\ Top.at = "loop"
    /\ Top.todo # <<>>
    /\ LET directory == Top.directory
           pair == Head(Top.todo)
           source_id == Resolve(directory, <<pair.source_file>>)
           resolved == resolve_link_path(tree, directory, pair.target_link)
           rest == [crawler EXCEPT !.stack[Len(crawler.stack)].todo = Tail(@)]
       IN
       IF ~Has(resolved)
       THEN crawler' = rest
       ELSE LET target_id == Val(resolved)
                target_dir == Parent(Val(resolved))
                added == [rest EXCEPT !.graph = @ \cup {<<source_id, target_id>>},
                                      !.reverse_graph = @ \cup {<<target_id, source_id>>}]
            IN crawler' =
                  IF target_dir # directory
                  THEN [added EXCEPT !.stack = Append(@, Frame(target_dir, "call", <<>>))]
                  ELSE added
    /\ UNCHANGED <<fileVars, stepVars, docVars, links_in, links_out, tree,
                   link_validator, found, history>>

\* The loops of a call of walk are over: it returns.
WalkReturn ==
    /\ crawler.pc = "walking"
    /\ Top.at = "loop"
    /\ Top.todo = <<>>
    /\ crawler' = Returned(crawler)
    /\ UNCHANGED <<fileVars, stepVars, docVars, links_in, links_out, tree,
                   link_validator, found, history>>

\* the target links of the three directories: docs/a.md and docs/b.md,
\* rules/retention.md, rules/old/retention.md, linking to one another
CrawlDocsLinks ==
    { <<"b.md">>, <<"..", "rules", "retention.md">>,
      <<"..", "rules", "old", "retention.md">> }

CrawlRulesLinks ==
    { <<"..", "docs", "a.md">>, <<"..", "docs", "b.md">>, <<"old", "retention.md">> }

CrawlDocsYamls ==
    { MissingYaml, UnparseableYaml, Mapping(Absent, Given(<<>>), Absent) }
    \cup { Mapping(Absent, Given(<<Entry("a.md", ts)>>), Absent) :
             ts \in SeqsUpTo(CrawlDocsLinks, MaxLinks) }
    \cup { Mapping(Absent, Given(<<Entry("a.md", ts), Entry("b.md", << <<"a.md">> >>)>>), Absent) :
             ts \in SeqsUpTo(CrawlDocsLinks, MaxLinks) }

CrawlRulesYamls ==
    { MissingYaml }
    \cup { Mapping(Absent, Given(<<Entry("retention.md", ts)>>), Absent) :
             ts \in SeqsUpTo(CrawlRulesLinks, MaxLinks) }

CrawlOldYamls ==
    { MissingYaml,
      Mapping(Absent,
              Given(<<Entry("retention.md",
                            << <<"..", "retention.md">>, <<"..", "..", "docs", "a.md">> >>)>>),
              Absent) }

CrawlTrees ==
    { Tree({DocsDir \o <<"a.md">>, DocsDir \o <<"b.md">>, OldDir \o <<"retention.md">>} \cup fs,
           [d \in TreeDirs |-> IF d = DocsDir THEN dy
                               ELSE IF d = RulesDir THEN ry
                               ELSE IF d = OldDir THEN oy ELSE MissingYaml]) :
        fs \in SUBSET {RulesDir \o <<"retention.md">>},
        dy \in CrawlDocsYamls, ry \in CrawlRulesYamls, oy \in CrawlOldYamls }

\* the crawler started in docs
InitCrawl ==
    /\ NoFiles
    /\ NoStepCall
    /\ NoDocConfig
    /\ NoDirectLinks
    /\ tree \in CrawlTrees
    /\ link_validator = NoLinkValidator
    /\ crawler = LinkCrawler(tree, DocsDir)
    /\ found = NoFound
    /\ history = NoHistory

NextCrawl == Walk \/ WalkTarget \/ WalkReturn

\* walk runs on: a call that can take a step takes it
SpecCrawl == InitCrawl /\ [][NextCrawl]_vars /\ WF_vars(NextCrawl)

\* ==================================================== find_markdown_files
\* A directory as it is given: relative to the working directory, or
\* absolute, its first part then being "/".
IsAbsolute(directory) == directory # <<>> /\ Head(directory) = "/"

\* where the directory is
Location(directory) ==
    IF IsAbsolute(directory) THEN Tail(directory) ELSE Resolve(Cwd, directory)

IsPrefix(a, b) == Len(a) <= Len(b) /\ SubSeq(b, 1, Len(a)) = a

\* fnmatch(name, '*.md')
MatchesMd(name) == NameLexemes(name)[Len(NameLexemes(name))] = ".md"

\* directory.rglob('*.md'): the paths below the directory whose name matches,
\* each starting with the directory as given
RGlobMd(t, directory) ==
    { directory \o SubSeq(f, Len(Location(directory)) + 1, Len(f)) : f \in
        { g \in t.files : /\ IsPrefix(Location(directory), g)
                          /\ g # Location(directory)
                          /\ MatchesMd(Name(g)) } }

\* the place of a path part in the order of strings
Rank(part) ==
    CASE part = ".." -> 1
      [] part = ".hidden" -> 2
      [] part = ".notes.md" -> 3
      [] part = "/" -> 4
      [] part = "a.md" -> 5
      [] part = "b.md" -> 6
      [] part = "b.txt" -> 7
      [] part = "c.md" -> 8
      [] part = "docs" -> 9
      [] part = "h.md" -> 10
      [] part = "p" -> 11
      [] part = "sub" -> 12
      [] OTHER -> 13

RECURSIVE PathLess(_, _)
\* Path.__lt__: the parts compared in turn
PathLess(a, b) ==
    IF a = <<>> THEN b # <<>>
    ELSE IF b = <<>> THEN FALSE
    ELSE IF Head(a) = Head(b) THEN PathLess(Tail(a), Tail(b))
    ELSE Rank(Head(a)) < Rank(Head(b))

RECURSIVE Sorted(_)
\* sorted(md_files)
Sorted(paths) ==
    IF paths = {} THEN <<>>
    ELSE LET first == CHOOSE x \in paths : \A y \in paths \ {x} : PathLess(x, y)
         IN <<first>> \o Sorted(paths \ {first})

\* MarkdownValidator.find_markdown_files
find_markdown_files(t, directory) ==
    Sorted({ path \in RGlobMd(t, directory) :
               ~\E i \in 1..Len(path) : StartsWithDot(path[i]) })

\* the call find_markdown_files(directory)
Find ==
    /\ found.pc = "idle"
    /\ found' = [found EXCEPT !.md_files = find_markdown_files(tree, found.directory),
                              !.pc = "done"]
    /\ UNCHANGED <<fileVars, stepVars, docVars, links_in, links_out, tree,
                   link_validator, crawler, history>>

\* the files that may lie below the directory
FilesBelow ==
    { <<"a.md">>, <<"b.md">>, <<"b.txt">>, <<"sub", "c.md">>,
      <<".hidden", "h.md">>, <<".notes.md">>, <<"sub", ".hidden", "a.md">> }

\* the working directory given as ".", as "../docs" and as "/p/docs"
DirectoryForms == { <<>>, <<"..", "docs">>, <<"/", "p", "docs">> }

InitFind ==
    /\ NoFiles
    /\ NoStepCall
    /\ NoDocConfig
    /\ NoDirectLinks
    /\ tree \in { Tree({Cwd \o f : f \in fs}, [d \in {Cwd} |-> MissingYaml]) :
                    fs \in SUBSET FilesBelow }
    /\ link_validator = NoLinkValidator
    /\ crawler = NoCrawler
    /\ found \in { [pc |-> "idle", directory |-> d, md_files |-> <<>>] :
                     d \in DirectoryForms }
    /\ history = NoHistory

NextFind == Find

SpecFind == InitFind /\ [][NextFind]_vars

\* ------------------------------------- validate_structure, on any spec.yaml
\* Blocks that load_spec lets through although nothing bounds them: a
\* sequence that is empty ('sequence' is only required to be a key), and
\* max_occurrences left at its default None.
EdgeBlocks ==
    { Block(<<>>, 1, Absent, "FATAL"),
      Block(<<>>, 0, Absent, "WARN"),
      Block(<<>>, 1, Given(1), "WARN"),
      Block(<<AnyHeading>>, 0, Absent, "FATAL"),
      Block(<<ListOpen, ItemOpen>>, 0, Absent, "WARN"),
      Block(<<AnyParagraph>>, 1, Absent, "FATAL") }

EdgeSpecs == {LoadedSpec(st) : st \in SeqsUpTo(EdgeBlocks, MaxBlocks)}

EdgeDocs ==
    SeqsUpTo({ Construct(Heading(2, <<"x">>), 2),
               Construct(Paragraph(<<"x">>, 0), 2),
               Construct(NestedList, 4) }, MaxConstructs)

InitEdge == InitWith(EdgeSpecs, EdgeDocs, {<<"a.md">>})

\* validate_file runs to its end once it is called
SpecEdge == InitEdge /\ [][Next]_vars /\ WF_vars(Next)

\* ===================================================== link and unlink
RECURSIVE Norm(_, _)
Norm(done, link) ==
    IF link = <<>> THEN done
    ELSE LET part == Head(link) IN
         Norm(IF part = "." THEN done
              ELSE IF part = ".." /\ done # <<>> /\ done[Len(done)] # ".."
                   THEN SubSeq(done, 1, Len(done) - 1)
                   ELSE Append(done, part),
              Tail(link))

\* Path(os.path.normpath(link)).as_posix() of a relative link
NormPath(link) == Norm(<<>>, link)

\* os.path.relpath with its arguments exchanged
RelDir_swapped(directory, start) ==
    IF RelPath(start, directory) = <<>> THEN <<".">> ELSE RelPath(start, directory)

\* Path(os.path.relpath(directory, start)).as_posix(): "." for the
\* directory itself
RelDir(directory, start) ==
    IF RelPath(directory, start) = <<>> THEN <<".">> ELSE RelPath(directory, start)

\* the dict the link commands work on: both keys are set
LinkData(allowed_targets, established_links, required_links) ==
    [allowed_targets |-> allowed_targets, established_links |-> established_links,
     required_links |-> required_links]

\* _load_yaml_for_linking: None when the file does not parse
load_yaml_for_linking(t, directory) ==
    LET file == YamlOf(t, directory) IN
    IF file.state = "missing" THEN Given(LinkData(<<>>, <<>>, Absent))
    ELSE IF file.state = "unparseable" THEN Absent
    ELSE Given(LinkData(OrElse(file.allowed_targets, <<>>),
                        OrElse(file.established_links, <<>>),
                        file.required_links))

\* _save_yaml_for_linking: the file is written with the keys of data
save_yaml_for_linking(t, directory, data) ==
    [t EXCEPT !.yaml[directory] =
        Mapping(Given(data.allowed_targets), Given(data.established_links),
                data.required_links)]

\* _check_link_is_allowed
check_link_is_allowed(target_link, source_dir, rules) ==
    LET target_abs == Resolve(source_dir, target_link) IN
    \/ rules = <<>>
    \/ \E i \in 1..Len(rules) :
          /\ Parent(target_abs) = Resolve(source_dir, rules[i].directory)
          /\ ReFullMatch(rules[i].filename_regex, NameLexemes(Name(target_abs)))

\* if new_rule not in allowed_targets: allowed_targets.append(new_rule)
AddRule(rules, new_rule) ==
    IF Contains(rules, new_rule) THEN rules ELSE Append(rules, new_rule)

\* r'.*\.md$' for a name that ends with '.md', re.escape(name) otherwise
GeneratedRegex(target_filename) ==
    IF MatchesMd(target_filename) THEN <<".*", ".md", "$">>
    ELSE NameLexemes(target_filename)

\* _add_force_rule
add_force_rule(yaml_data, source_dir, target_path) ==
    LET new_rule == Rule(RelDir(Parent(target_path), source_dir),
                         GeneratedRegex(Name(target_path)))
    IN [yaml_data EXCEPT !.allowed_targets = AddRule(@, new_rule)]

\* links.append(link)
AddLink_always(links, link) == Append(links, link)

\* if link not in links: links.append(link)
AddLink(links, link) == IF Contains(links, link) THEN links ELSE Append(links, link)

\* established.setdefault(filename, []), then the append to its list
Establish(established, filename, link) ==
    LET with_key == IF HasKey(established, filename) THEN established
                    ELSE Append(established, Entry(filename, <<>>))
    IN [i \in 1..Len(with_key) |->
          IF with_key[i].source = filename
          THEN Entry(filename, AddLink(with_key[i].targets, link))
          ELSE with_key[i]]

\* links.remove(link): the first occurrence goes
Remove(links, link) ==
    LET i == CHOOSE k \in 1..Len(links) :
                /\ links[k] = link
                /\ \A j \in 1..(k - 1) : links[j] # link
    IN SubSeq(links, 1, i - 1) \o SubSeq(links, i + 1, Len(links))

RECURSIVE WithoutKey(_, _)
\* del established[filename]
WithoutKey(established, filename) ==
    IF established = <<>> THEN <<>>
    ELSE IF Head(established).source = filename
         THEN WithoutKey(Tail(established), filename)
         ELSE <<Head(established)>> \o WithoutKey(Tail(established), filename)

\* the key is kept with an empty list
Disestablish_keep(established, filename, link) ==
    [i \in 1..Len(established) |->
       IF established[i].source = filename
       THEN Entry(filename, Remove(established[i].targets, link))
       ELSE established[i]]

\* established[filename].remove(link), and del established[filename] when
\* no link remains
Disestablish(established, filename, link) ==
    IF Remove(Get(established, filename), link) = <<>>
    THEN WithoutKey(established, filename)
    ELSE [i \in 1..Len(established) |->
            IF established[i].source = filename
            THEN Entry(filename, Remove(established[i].targets, link))
            ELSE established[i]]

\* the arguments of link and unlink; source_file is given resolved
Args(source_file, target_link, force, bi) ==
    [source_file |-> source_file, target_link |-> target_link,
     force |-> force, bi |-> bi]

\* what a command left: the value it returned (none when it raised) and the tree
Outcome(value, t) == [returned |-> value, tree |-> t]

\* the forward link is written before the back-link is validated
BackRefused_late(t, forward_saved) == forward_saved

\* a refusal of the back-link leaves the tree as it was
BackRefused(t, forward_saved) == t

\* link_files
link_files(t, args) ==
    LET source_path == args.source_file
        source_dir == Parent(source_path)
        source_filename == Name(source_path)
        normalized_target_link == NormPath(args.target_link)
        target_path == Resolve(source_dir, normalized_target_link)
        target_dir == Parent(target_path)
        target_filename == Name(target_path)
        source_loaded == load_yaml_for_linking(t, source_dir)
        source_yaml_data == Val(source_loaded)
        is_allowed == check_link_is_allowed(normalized_target_link, source_dir,
                                            source_yaml_data.allowed_targets)
        target_loaded == load_yaml_for_linking(t, target_dir)
        target_yaml_data == Val(target_loaded)
        relative_source_link == AsPosix(RelPath(source_path, target_dir))
        is_back_link_allowed ==
            check_link_is_allowed(relative_source_link, target_dir,
                                  target_yaml_data.allowed_targets)
        source_forced == IF args.force
                         THEN add_force_rule(source_yaml_data, source_dir, target_path)
                         ELSE source_yaml_data
        source_linked ==
            [source_forced EXCEPT !.established_links =
                Establish(@, source_filename, normalized_target_link)]
        target_forced == IF args.force
                         THEN add_force_rule(target_yaml_data, target_dir, source_path)
                         ELSE target_yaml_data
        target_linked ==
            [target_forced EXCEPT !.established_links =
                Establish(@, target_filename, relative_source_link)]
        back_link_is_new ==
            ~Contains(Get(target_yaml_data.established_links, target_filename),
                      relative_source_link)
        after_target == IF args.bi /\ back_link_is_new
                        THEN save_yaml_for_linking(t, target_dir, target_linked)
                        ELSE t
    IN
    IF source_path \notin t.files THEN Outcome(Given(2), t)
    ELSE IF ~Has(source_loaded) THEN Outcome(Given(2), t)
    ELSE IF ~is_allowed /\ ~args.force THEN Outcome(Given(2), t)
    ELSE IF args.bi /\ ~Has(target_loaded) THEN Outcome(Given(2), t)
    ELSE IF args.bi /\ ~is_back_link_allowed /\ ~args.force
    THEN Outcome(Given(2),
                 BackRefused(t, save_yaml_for_linking(t, source_dir, source_linked)))
    ELSE Outcome(Given(0), save_yaml_for_linking(after_target, source_dir, source_linked))

\* unlink_files; a links.yaml that exists and does not parse makes
\* source_yaml_data.get raise AttributeError, which nothing catches
unlink_files(t, args) ==
    LET source_path == args.source_file
        source_dir == Parent(source_path)
        source_filename == Name(source_path)
        normalized_target_link == NormPath(args.target_link)
        target_path == Resolve(source_dir, normalized_target_link)
        target_dir == Parent(target_path)
        target_filename == Name(target_path)
        source_exists == YamlOf(t, source_dir).state # "missing"
        source_loaded == load_yaml_for_linking(t, source_dir)
        established == Val(source_loaded).established_links
        source_changed ==
            /\ source_exists
            /\ HasKey(established, source_filename)
            /\ Contains(Get(established, source_filename), normalized_target_link)
        source_unlinked ==
            [Val(source_loaded) EXCEPT !.established_links =
                Disestablish(@, source_filename, normalized_target_link)]
        target_exists == YamlOf(t, target_dir).state # "missing"
        target_loaded == load_yaml_for_linking(t, target_dir)
        relative_source_link == AsPosix(RelPath(source_path, target_dir))
        established_target == Val(target_loaded).established_links
        target_changed ==
            /\ args.bi
            /\ target_exists
            /\ HasKey(established_target, target_filename)
            /\ Contains(Get(established_target, target_filename), relative_source_link)
        target_unlinked ==
            [Val(target_loaded) EXCEPT !.established_links =
                Disestablish(@, target_filename, relative_source_link)]
        after_target == IF target_changed
                        THEN save_yaml_for_linking(t, target_dir, target_unlinked)
                        ELSE t
    IN
    IF source_path \notin t.files THEN Outcome(Given(2), t)
    ELSE IF ~Exists(t, target_path) /\ ~args.force THEN Outcome(Given(2), t)
    ELSE IF source_exists /\ ~Has(source_loaded) THEN Outcome(Absent, t)
    ELSE IF args.bi /\ target_exists /\ ~Has(target_loaded) THEN Outcome(Absent, t)
    ELSE Outcome(Given(0),
                 IF source_changed
                 THEN save_yaml_for_linking(after_target, source_dir, source_unlinked)
                 ELSE after_target)

\* a command that was run: its number, its arguments, the tree before it
\* and what it left
Command(no, op, args, before, outcome) ==
    [no |-> no, op |-> op, args |-> args, before |-> before,
     returned |-> outcome.returned, after |-> outcome.tree]

\* how many commands were run
Count == IF history = <<>> THEN 0 ELSE history[Len(history)].no

\* the history keeps the last two commands
Ran(command) ==
    IF history = <<>> THEN <<command>> ELSE <<history[Len(history)], command>>

MaxCommands == 2        \* link and unlink commands run one after another

\* the documents: docs/a.md, docs/b.md and rules/retention.md exist
LinkFiles ==
    { DocsDir \o <<"a.md">>, DocsDir \o <<"b.md">>, RulesDir \o <<"retention.md">> }

\* link and unlink are run from docs on a.md and on ghost.md, which does
\* not exist, and from rules on retention.md; the targets are a file of the
\* same directory, files of the other directory and retention.txt, which
\* does not exist
LinkPairs ==
    { <<DocsDir \o <<"a.md">>, <<"b.md">> >>,
      <<DocsDir \o <<"a.md">>, <<".", "..", "rules", "retention.md">> >>,
      <<DocsDir \o <<"a.md">>, <<"..", "rules", "retention.txt">> >>,
      <<DocsDir \o <<"ghost.md">>, <<"b.md">> >>,
      <<RulesDir \o <<"retention.md">>, <<"..", "docs", "a.md">> >> }

LinkArgs ==
    { Args(p[1], p[2], force, bi) : p \in LinkPairs, force \in BOOLEAN, bi \in BOOLEAN }

DocsRule == Rule(<<"..", "docs">>, <<".*", ".md", "$">>)

\* docs/links.yaml and rules/links.yaml before the first command
ManagedDocsYamls ==
    { MissingYaml, UnparseableYaml, Mapping(Absent, Absent, Absent),
      Mapping(Given(<<HereRule>>), Given(<<>>), Absent),
      Mapping(Given(<<RetentionRule>>), Given(<<Entry("a.md", <<>>)>>), Absent),
      Mapping(Given(<<>>),
              Given(<<Entry("a.md", << <<"b.md">> >>),
                      Entry("b.md", << <<"a.md">> >>)>>), Absent) }

ManagedRulesYamls ==
    { MissingYaml,
      Mapping(Given(<<DocsRule>>), Absent, Absent),
      Mapping(Given(<<Rule(<<".">>, <<".*", ".md", "$">>)>>),
              Given(<<Entry("retention.md", << <<"..", "docs", "a.md">> >>)>>), Absent) }

ManagedTrees ==
    { Tree(LinkFiles,
           [d \in {ProjectDir, DocsDir, RulesDir} |->
               IF d = DocsDir THEN dy ELSE IF d = RulesDir THEN ry ELSE MissingYaml]) :
        dy \in ManagedDocsYamls, ry \in ManagedRulesYamls }

InitManage ==
    /\ NoFiles
    /\ NoStepCall
    /\ NoDocConfig
    /\ NoDirectLinks
    /\ tree \in ManagedTrees
    /\ link_validator = NoLinkValidator
    /\ crawler = NoCrawler
    /\ found = NoFound
    /\ history = NoHistory

\* the link command
Link ==
    /\ Count < MaxCommands
    /\ \E args \in LinkArgs :
          LET outcome == link_files(tree, args) IN
          /\ tree' = outcome.tree
          /\ history' = Ran(Command(Count + 1, "link", args, tree, outcome))
    /\ UNCHANGED <<fileVars, stepVars, docVars, links_in, links_out,
                   link_validator, crawler, found>>

\* the unlink command
Unlink ==
    /\ Count < MaxCommands
    /\ \E args \in LinkArgs :
          LET outcome == unlink_files(tree, args) IN
          /\ tree' = outcome.tree
          /\ history' = Ran(Command(Count + 1, "unlink", args, tree, outcome))
    /\ UNCHANGED <<fileVars, stepVars, docVars, links_in, links_out,
                   link_validator, crawler, found>>

NextManage == Link \/ Unlink

SpecManage == InitManage /\ [][NextManage]_vars

\* ================================================================ claims
Structure == spec.structure

\* The entries of ended whose Block ended below its min_occurrences.
Below(e) == e.count < Structure[e.block].min_occurrences
FatalBelow(e) == Below(e) /\ Structure[e.block].error_level = "FATAL"
WarnBelow(e) == Below(e) /\ Structure[e.block].error_level = "WARN"

\* C1: during validate_structure the cursor never decreases: no step taken
\* while a file is being validated, a Block attempt or the move to the next
\* Block, leaves token_index lower than it was.
C1_CursorMonotone ==
    [][file_no' = file_no => token_index' >= token_index]_vars

\* A failed attempt of the second Block, made after the first Block has
\* advanced the cursor.
C1_Witness ==
    /\ attempt.made
    /\ attempt.block = 2
    /\ attempt.consumed = 0
    /\ attempt.before > 0
    /\ token_index = attempt.before

C3_WarnContinues ==
    \A i \in 1..Len(ended) :
        WarnBelow(ended[i]) =>
            /\ Len(result.warnings) >= 1
            /\ (i = Len(ended) /\ attempt.block <= ended[i].block)
                   => token_index = ended[i].at
            /\ Has(returned) =>
                   \/ Len(ended) = Len(Structure)
                   \/ \E j \in 1..Len(ended) : FatalBelow(ended[j])

\* C4: every diagnostic of the result was recorded for a Block that ended
\* with fewer occurrences, counted from zero for that Block, than its
\* min_occurrences; so a Block with min_occurrences = 0 and an empty
\* structure yield none.
C4_OnlyBelowMin ==
    /\ Len(result.errors) + Len(result.warnings) = Len(reported)
    /\ \A k \in 1..Len(reported) :
          \E i \in 1..Len(ended) :
              /\ ended[i].block = reported[k]
              /\ Below(ended[i])
    /\ (spec.loaded /\ Structure = <<>>) => reported = <<>>

\* A Block with min_occurrences = 0 that never matched, without a diagnostic,
\* followed by a Block that ended below its minimum, with one.
C4_Witness ==
    /\ Len(ended) = 2
    /\ ended[1].count = 0
    /\ Structure[1].min_occurrences = 0
    /\ Below(ended[2])
    /\ reported = <<2>>

\* What C5 calls the content associated with the token at the cursor.
AssociatedContent(toks, i) ==
    IF At(toks, i).type \in {"heading_open", "paragraph_open"}
    THEN IF i + 1 < Len(toks) THEN At(toks, i + 1).content ELSE <<>>
    ELSE At(toks, i).content

\* C5 as claimed: the Step is accepted iff the kind matches, the token's
\* heading level is the Step's level when one is given, its fence info is the
\* Step's info when one is given, and the content fully matches content_regex
\* when one is given.
C5_AcceptsIff ==
    Has(step_out) =>
        LET toks == step_in.tokens
            i == step_in.token_index
            step == step_in.step
        IN  Val(step_out).success <=>
               /\ i < Len(toks)
               /\ At(toks, i).type = step.type
               /\ Has(step.level) => At(toks, i).tag = HTag(Val(step.level))
               /\ Has(step.info) => At(toks, i).info = Val(step.info)
               /\ Has(step.content_regex) =>
                      FullMatch(Val(step.content_regex), AssociatedContent(toks, i))

\* C5 amended: as claimed, with the level compared on heading_open tokens
\* only and the info on fence tokens only; an accepted Step consumes one token.
C5_AcceptsIffGuarded ==
    Has(step_out) =>
        LET toks == step_in.tokens
            i == step_in.token_index
            step == step_in.step
            accepted ==
               /\ i < Len(toks)
               /\ At(toks, i).type = step.type
               /\ (Has(step.level) /\ At(toks, i).type = "heading_open")
                      => At(toks, i).tag = HTag(Val(step.level))
               /\ (Has(step.info) /\ At(toks, i).type = "fence")
                      => At(toks, i).info = Val(step.info)
               /\ Has(step.content_regex) =>
                      FullMatch(Val(step.content_regex), AssociatedContent(toks, i))
        IN  /\ Val(step_out).success <=> accepted
            /\ Val(step_out).consumed = IF accepted THEN 1 ELSE 0

\* A heading whose text the regex matches only in part is rejected.
C5_Witness ==
    /\ Has(step_out)
    /\ ~Val(step_out).success
    /\ Val(step_out).error.why = "regex"
    /\ step_in.step.content_regex = Given(<<"Project">>)
    /\ AssociatedContent(step_in.tokens, step_in.token_index) = <<"Project", " ", "x">>

\* C6: a Block attempt in which a Step failed consumed no token and left the
\* cursor where it was, whichever Step failed.
C6_NoPartialCredit ==
    (attempt.made /\ attempt.failed_step >= 1) =>
        /\ attempt.consumed = 0
        /\ token_index = attempt.before

\* The second Step of a Block failed after its first Step had matched.
C6_Witness ==
    /\ attempt.made
    /\ attempt.failed_step = 2
    /\ attempt.consumed = 0
    /\ token_index = attempt.before

\* C7: no Block is counted more often than its max_occurrences, when it has one.
C7_AtMostMax ==
    (spec.loaded /\ block_index >= 1) =>
        (Has(CurrentBlock.max_occurrences)
            => occurrences <= Val(CurrentBlock.max_occurrences))

\* ------------------------------------------------ C8: where the cursor lands
OpenTypes == {"heading_open", "paragraph_open", "bullet_list_open", "list_item_open"}
CloseTypes == {"heading_close", "paragraph_close", "bullet_list_close", "list_item_close"}

RECURSIVE CloseFrom(_, _, _)
CloseFrom(toks, j, depth) ==
    IF j >= Len(toks) THEN Len(toks)
    ELSE IF At(toks, j).type \in OpenTypes THEN CloseFrom(toks, j + 1, depth + 1)
    ELSE IF At(toks, j).type \in CloseTypes
         THEN IF depth = 0 THEN j ELSE CloseFrom(toks, j + 1, depth - 1)
    ELSE CloseFrom(toks, j + 1, depth)

\* The index of the close token that balances the open token at index i.
CloseOf(toks, i) == CloseFrom(toks, i + 1, 0)

\* The list_item_open tokens whose list item holds the token at index i.
ItemsAround(toks, i) ==
    { k \in 0..(i - 1) : At(toks, k).type = "list_item_open" /\ CloseOf(toks, k) > i }

Innermost(S) == CHOOSE k \in S : \A m \in S : m <= k

Landed == attempt.before + attempt.consumed

\* The last attempt matched and its final Step matched an open token.
MatchedOpen ==
    /\ attempt.made
    /\ attempt.failed_step = 0
    /\ attempt.last >= 0
    /\ At(tokens, attempt.last).type \in {"heading_open", "paragraph_open", "list_item_open"}

HasItemStep(block) ==
    \E i \in 1..Len(block.sequence) : block.sequence[i].type = "list_item_open"

\* C8 as claimed: after the final Step matched an open token, the cursor is
\* immediately after the close token of the construct that token opened.
C8_LandsAfterConstruct ==
    MatchedOpen => Landed = CloseOf(tokens, attempt.last) + 1

\* C8 amended: that holds when the final Step is a list_item_open, and when it
\* is a heading or paragraph open in a Block without a list_item_open Step; in
\* a Block with one, a final heading or paragraph open inside a list item
\* takes the cursor immediately after the close of the innermost list item
\* around it.
C8_LandsAfterConstructOrItem ==
    MatchedOpen =>
        LET last == attempt.last
            block == Structure[attempt.block]
        IN  IF At(tokens, last).type = "list_item_open" \/ ~HasItemStep(block)
            THEN Landed = CloseOf(tokens, last) + 1
            ELSE ItemsAround(tokens, last) # {}
                     => Landed = CloseOf(tokens, Innermost(ItemsAround(tokens, last))) + 1

\* The final Step matched a list_item_open whose item holds a nested list item.
C8_Witness ==
    /\ MatchedOpen
    /\ At(tokens, attempt.last).type = "list_item_open"
    /\ \E k \in (attempt.last + 1)..(CloseOf(tokens, attempt.last) - 1) :
           At(tokens, k).type = "list_item_close"
    /\ Landed = CloseOf(tokens, attempt.last) + 1

\* C9: verify_project returns after validate_file has been called on every
\* file, and returns 2 iff some result has an error, 1 iff none has an error
\* and some has a warning, 0 iff none has either.
C9_ExitCode ==
    Has(exit_code) =>
        LET errs == \E i \in 1..Len(finished) : finished[i].errors # <<>>
            warns == \E i \in 1..Len(finished) : finished[i].warnings # <<>>
        IN  /\ Len(finished) = Len(md_files)
            /\ \A i \in 1..Len(md_files) : finished[i].file = md_files[i]
            /\ Val(exit_code) \in {0, 1, 2}
            /\ Val(exit_code) = 2 <=> errs
            /\ Val(exit_code) = 1 <=> (~errs /\ warns)
            /\ Val(exit_code) = 0 <=> (~errs /\ ~warns)

\* A run that ends with 2 although one of its files has warnings only.
C9_Witness ==
    /\ Has(exit_code)
    /\ Val(exit_code) = 2
    /\ \E i, j \in 1..Len(finished) :
          /\ finished[i].errors = <<>>
          /\ finished[i].warnings # <<>>
          /\ finished[j].errors # <<>>

\* C10: two validate_file calls on the same file give the same errors, the
\* same warnings and the same outcome, whatever was validated in between, and
\* no step changes the loaded spec.
C10_SameDocumentSameResult ==
    /\ [](\A i, j \in 1..Len(finished) :
             finished[i].file = finished[j].file => finished[i] = finished[j])
    /\ [][spec' = spec]_vars

\* A file with an error validated again after a file with a warning.
C10_Witness ==
    /\ Len(finished) = 3
    /\ finished[1].file = finished[3].file
    /\ finished[2].file # finished[1].file
    /\ finished[1].errors # <<>>
    /\ finished[2].warnings # <<>>
    /\ finished[3] = finished[1]

\* ----------------------------------------------------- verify-doc claims
\* C11: when spec.yaml is missing or cannot be parsed the run of
\* verify_project ends with exit code 2, whatever the documents contain.
C11_MissingSpecIsFatal ==
    (yaml_disk.spec \in {"missing", "unparseable"} /\ Has(exit_code))
        => Val(exit_code) = 2

NoDuplicates(list) == \A i, j \in 1..Len(list) : list[i] = list[j] => i = j

\* C12: in every result validate_file has produced neither errors nor
\* warnings holds the same message twice.
C12_NoDuplicateMessages ==
    \A i \in 1..Len(finished) :
       /\ NoDuplicates(finished[i].errors)
       /\ NoDuplicates(finished[i].warnings)

\* the relative links of the argument tokens of a direct call
GivenLinks ==
    { links_in.tokens[i].attrs.href : i \in
        { j \in 1..Len(links_in.tokens) : ~External(links_in.tokens[j].attrs.href) } }

Rejected(link) ==
    \E i \in 1..Len(Val(links_out).warnings) :
       /\ Val(links_out).warnings[i].kind = "invalid"
       /\ Val(links_out).warnings[i].link = link

Checked == link_validator.pc \in {"checks", "report", "done"}

Details == link_validator.results

RootYaml == YamlOf(tree, link_validator.directory)

DeclaredPairs == Edges(OrElse(RootYaml.established_links, <<>>))

RootRules == OrElse(RootYaml.allowed_targets, <<>>)

TargetOf(d) == Resolve(link_validator.directory, d.target_link)

SourceOf(d) == Resolve(link_validator.directory, <<d.source_file>>)

\* some rule names the directory of the target and fully matches its name
AllowedBySomeRule(d) ==
    \E i \in 1..Len(RootRules) :
       /\ Parent(TargetOf(d)) = Resolve(link_validator.directory, RootRules[i].directory)
       /\ FullMatch(Unanchored(RootRules[i].filename_regex), NameLexemes(Name(TargetOf(d))))

\* the directory has a links.yaml that can be read and has established_links
HasEstablished(t, directory) ==
    /\ YamlOf(t, directory).state = "mapping"
    /\ Has(YamlOf(t, directory).established_links)

\* the relative path from the directory of the target back to the source
BackPath(d) == RelPath(SourceOf(d), Parent(TargetOf(d)))

\* the links.yaml of the target's directory lists, for the target, a path
\* that is the way back to the source once it is normalized
ReverseDeclared(t, d) ==
    /\ HasEstablished(t, Parent(TargetOf(d)))
    /\ LET listed == Get(Val(YamlOf(t, Parent(TargetOf(d))).established_links),
                         Name(TargetOf(d)))
       IN \E k \in 1..Len(listed) : AsPosix(listed[k]) = BackPath(d)

Failing(d) == "FAIL" \in {d.results.allowed, d.results.exists, d.results.bidi}

CountBidi(status) == Cardinality({i \in 1..Len(Details) : Details[i].results.bidi = status})

\* C14: with an empty or absent allowed_targets list in the links.yaml of the
\* checked directory every established link is disallowed: each pair gets
\* allowed = FAIL, the disallowed counter is the number of pairs checked,
\* the ERRORS flag is set as soon as a pair is checked, and every declared
\* pair is checked.
C14_FailClosed ==
    (Checked /\ RootRules = <<>>) =>
        /\ \A i \in 1..Len(Details) : Details[i].results.allowed = "FAIL"
        /\ link_validator.summary.disallowed = Len(Details)
        /\ Details # <<>> => HasFlag(link_validator.exit_code, ERRORS)
        /\ link_validator.pc \in {"report", "done"} => Len(Details) = Len(DeclaredPairs)
        /\ (Has(link_validator.returned) /\ Details # <<>>)
              => HasFlag(Val(link_validator.returned), ERRORS)

\* A finished run without rules over two pairs whose first target exists.
C14_Witness ==
    /\ link_validator.pc = "done"
    /\ RootRules = <<>>
    /\ Len(Details) = 2
    /\ Details[1].results.exists = "PASS"
    /\ link_validator.summary.disallowed = 2

\* C15: every declared (source, target) pair gets one detail, in order, with
\* an allowed, an exists and a bidi result; allowed and exists are each what
\* the rules and the tree say, whatever the other is; bidi is SKIPPED exactly
\* when the target does not exist, INFO exactly when it exists and its
\* directory has no readable links.yaml or no established_links, PASS or FAIL
\* otherwise; an INFO neither sets ERRORS nor counts as unidirectional; and
\* summary total is the number of details.
C15_OneDetailPerPair ==
    Checked =>
        /\ Len(Details) = IF link_validator.pc = "checks"
                          THEN link_validator.edge_no - 1 ELSE Len(DeclaredPairs)
        /\ link_validator.summary.total = Len(Details)
        /\ link_validator.summary.unidirectional = CountBidi("FAIL")
        /\ \A i \in 1..Len(Details) :
              LET d == Details[i]
                  exists == Exists(tree, TargetOf(d))
              IN /\ d.source_file = DeclaredPairs[i].source_file
                 /\ d.target_link = DeclaredPairs[i].target_link
                 /\ d.results.allowed = IF AllowedBySomeRule(d) THEN "PASS" ELSE "FAIL"
                 /\ d.results.exists = IF exists THEN "PASS" ELSE "FAIL"
                 /\ d.results.bidi = "SKIPPED" <=> ~exists
                 /\ d.results.bidi = "INFO"
                       <=> (exists /\ ~HasEstablished(tree, Parent(TargetOf(d))))
                 /\ d.results.bidi \in {"SKIPPED", "INFO", "PASS", "FAIL"}
        /\ (\A i \in 1..Len(Details) :
               /\ Details[i].results.allowed = "PASS"
               /\ Details[i].results.exists = "PASS"
               /\ Details[i].results.bidi \in {"INFO", "PASS"})
              => ~HasFlag(link_validator.exit_code, ERRORS)

\* A finished run with an allowed link to a missing file (SKIPPED) and an
\* allowed link to a file whose directory has no links.yaml (INFO), and
\* no violation besides the broken link.
C15_Witness ==
    /\ link_validator.pc = "done"
    /\ \E i, j \in 1..Len(Details) :
          /\ Details[i].results.allowed = "PASS"
          /\ Details[i].results.bidi = "SKIPPED"
          /\ Details[j].results.allowed = "PASS"
          /\ Details[j].results.bidi = "INFO"
    /\ link_validator.summary.unidirectional = 0

\* The tree in which the way back from the target of d to its source is
\* declared if it was not, and no longer declared if it was.
WithoutReverse(t, d) ==
    LET directory == Parent(TargetOf(d))
        file == YamlOf(t, directory)
        Other(p) == AsPosix(p) # BackPath(d)
        items == Val(file.established_links)
    IN [t EXCEPT !.yaml[directory].established_links =
          Given([k \in 1..Len(items) |->
                    IF items[k].source = Name(TargetOf(d))
                    THEN Entry(items[k].source, SelectSeq(items[k].targets, Other))
                    ELSE items[k]])]

WithReverse(t, d) ==
    LET directory == Parent(TargetOf(d))
        file == YamlOf(t, directory)
        items == OrElse(file.established_links, <<>>)
        added == IF HasKey(items, Name(TargetOf(d)))
                 THEN [k \in 1..Len(items) |->
                          IF items[k].source = Name(TargetOf(d))
                          THEN Entry(items[k].source, Append(items[k].targets, BackPath(d)))
                          ELSE items[k]]
                 ELSE Append(items, Entry(Name(TargetOf(d)), <<BackPath(d)>>))
    IN [t EXCEPT !.yaml[directory] =
          IF file.state = "mapping"
          THEN [file EXCEPT !.established_links = Given(added)]
          ELSE Mapping(Absent, Given(added), Absent)]

ReverseToggled(t, d) ==
    IF ReverseDeclared(t, d) THEN WithoutReverse(t, d) ELSE WithReverse(t, d)

\* the results of the pair of d in tree t
ResultsIn(t, d) ==
    CheckPair(t, link_validator.directory,
              OrElse(YamlOf(t, link_validator.directory).allowed_targets, <<>>),
              d.source_file, d.target_link).detail.results

\* C16: for a pair whose target exists, bidi is PASS iff the links.yaml of
\* the target's directory lists for the target a path that, normalized, is
\* the relative path back to the source; and in the tree that differs only
\* in that reverse entry the pair has the same allowed and exists results
\* and the other bidi result (PASS where it was not, FAIL where it was PASS).
C16_ReverseEntryOnly ==
    Checked =>
        \A i \in 1..Len(Details) :
           LET d == Details[i] IN
           d.results.exists = "PASS" =>
              /\ d.results.bidi = "PASS" <=> ReverseDeclared(tree, d)
              /\ YamlOf(tree, Parent(TargetOf(d))).state # "unparseable" =>
                    LET other == ResultsIn(ReverseToggled(tree, d), d) IN
                    /\ other.allowed = d.results.allowed
                    /\ other.exists = d.results.exists
                    /\ other.bidi = IF d.results.bidi = "PASS" THEN "FAIL" ELSE "PASS"

\* A finished run with a link to ../rules/retention.md whose way back is
\* declared as ./../docs/a.md, and a link to b.md whose way back is not.
C16_Witness ==
    /\ link_validator.pc = "done"
    /\ \E i, j \in 1..Len(Details) :
          /\ Details[i].results.bidi = "PASS"
          /\ Parent(TargetOf(Details[i])) = RulesDir
          /\ Contains(Get(Val(YamlOf(tree, RulesDir).established_links), "retention.md"),
                      <<".", "..", "docs", "a.md">>)
          /\ Details[j].results.bidi = "FAIL"
          /\ Details[j].results.exists = "PASS"

RECURSIVE OrOf(_)
OrOf(flags) ==
    IF flags = {} THEN 0
    ELSE LET f == CHOOSE x \in flags : TRUE IN BitOr(f, OrOf(flags \ {f}))

\* a links.yaml the run reads cannot be parsed: that of the checked directory,
\* or that of the directory of an existing target
UnreadableMet ==
    \/ RootYaml.state = "unparseable"
    \/ \E i \in 1..Len(Details) :
          /\ Exists(tree, TargetOf(Details[i]))
          /\ YamlOf(tree, Parent(TargetOf(Details[i]))).state = "unparseable"

\* C17: the exit code is the OR of the flags raised so far and no step clears
\* a flag; ERRORS is set iff some check of some pair has status FAIL;
\* SYSTEM_ERROR is set once a links.yaml could not be parsed; run returns the
\* exit code (SYSTEM_ERROR when the links.yaml of the checked directory is
\* missing, empty or not parseable); and every declared pair is checked
\* whatever the violations before it.
C17_FlagsAccumulate ==
    /\ [](link_validator.pc # "none" =>
            /\ link_validator.exit_code = OrOf(link_validator.raised)
            /\ HasFlag(link_validator.exit_code, ERRORS)
                  <=> \E i \in 1..Len(Details) : Failing(Details[i])
            /\ (UnreadableMet /\ link_validator.pc # "idle")
                  => HasFlag(link_validator.exit_code, SYSTEM_ERROR)
            /\ Has(link_validator.returned) =>
                  /\ Val(link_validator.returned) =
                        IF Has(link_validator.links_yaml)
                        THEN link_validator.exit_code ELSE SYSTEM_ERROR
                  /\ Has(link_validator.links_yaml) => Len(Details) = Len(DeclaredPairs))
    /\ [][\A f \in {ERRORS, SYSTEM_ERROR} :
             HasFlag(link_validator.exit_code, f) => HasFlag(link_validator'.exit_code, f)]_vars

\* A run that returns ERRORS | SYSTEM_ERROR after three pairs, the first of
\* which already failed a check.
C17_Witness ==
    /\ link_validator.pc = "done"
    /\ link_validator.returned = Given(17)
    /\ Len(Details) = 3
    /\ Failing(Details[1])
    /\ ~Failing(Details[3])

\* ------------------------------------------------------ required links
\* the links written in the text of a document
DocLinks(doc) ==
    LET toks == Parse(doc, 0) IN
    { Val(Href(toks[i].content[k])) : <<i, k>> \in
        { ik \in (1..Len(toks)) \X (1..1) :
            /\ toks[ik[1]].type = "inline"
            /\ Len(toks[ik[1]].content) >= 1
            /\ Has(Href(toks[ik[1]].content[1])) } }

MissingWarnings(list, link) ==
    Cardinality({ i \in 1..Len(list) : list[i].kind = "missing" /\ list[i].link = link })

\* C19: for every validated document with a required_links entry the result
\* holds one 'Missing required link' warning for each required path that is
\* not among the links of the document, none for a required path that is,
\* and no such error.
C19_MissingRequiredWarned ==
    \A i \in 1..Len(finished) :
       LET file == finished[i].file
           links == yaml_disk.links
       IN (/\ links.state = "mapping"
           /\ Has(links.required_links)
           /\ HasKey(Val(links.required_links), file)) =>
             LET required == Get(Val(links.required_links), file) IN
             \A k \in 1..Len(required) :
                /\ MissingWarnings(finished[i].warnings, required[k])
                      = IF required[k] \in DocLinks(disk[file]) THEN 0 ELSE 1
                /\ MissingWarnings(finished[i].errors, required[k]) = 0

\* ------------------------------------------------------------ the crawler
\* the pairs (source, target) a directory's links.yaml declares whose target
\* exists
DeclaredIn(t, directory) ==
    IF HasEstablished(t, directory)
    THEN LET pairs == Edges(Val(YamlOf(t, directory).established_links)) IN
         { <<Resolve(directory, <<pairs[i].source_file>>),
             Resolve(directory, pairs[i].target_link)>> : i \in
             { j \in 1..Len(pairs) : Exists(t, Resolve(directory, pairs[j].target_link)) } }
    ELSE {}

RECURSIVE ReachableFrom(_, _)
\* the directories reached from a set of directories along declared links
ReachableFrom(t, dirs) ==
    LET more == dirs \cup { Parent(e[2]) : e \in UNION {DeclaredIn(t, d) : d \in dirs} }
    IN IF more = dirs THEN dirs ELSE ReachableFrom(t, more)

\* docs/a.md and rules/retention.md link to each other
Cycle ==
    /\ <<DocsDir \o <<"a.md">>, RulesDir \o <<"retention.md">>>> \in DeclaredIn(tree, DocsDir)
    /\ <<RulesDir \o <<"retention.md">>, DocsDir \o <<"a.md">>>> \in DeclaredIn(tree, RulesDir)

\* C18: walk terminates, also on directories that link to each other; it
\* reads the links.yaml of each directory at most once; a directory is in
\* visited_dirs while its links are followed; and when walk has returned the
\* graph holds every declared link of every directory reached, both links of
\* a cycle among them.
C18_WalkTerminates ==
    /\ [](crawler.pc # "none" =>
            /\ \A d \in DOMAIN crawler.loads : crawler.loads[d] <= 1
            /\ \A i \in 1..Len(crawler.stack) :
                  crawler.stack[i].at = "loop"
                     => crawler.stack[i].directory \in crawler.visited_dirs
            /\ crawler.pc = "done" =>
                  /\ crawler.graph
                        = UNION {DeclaredIn(tree, d) : d \in ReachableFrom(tree, {DocsDir})}
                  /\ crawler.visited_dirs = ReachableFrom(tree, {DocsDir}))
    /\ <>(crawler.pc \in {"done", "none"})

\* walk has returned on a tree in which docs/a.md and rules/retention.md
\* link to each other, and the graph holds both links.
C18_Witness ==
    /\ crawler.pc = "done"
    /\ Cycle
    /\ <<DocsDir \o <<"a.md">>, RulesDir \o <<"retention.md">>>> \in crawler.graph
    /\ <<RulesDir \o <<"retention.md">>, DocsDir \o <<"a.md">>>> \in crawler.graph
    /\ crawler.loads[DocsDir] = 1
    /\ crawler.loads[RulesDir] = 1

\* --------------------------------------------------------- the file search
\* the files found, as paths below the directory
FoundBelow ==
    { SubSeq(found.md_files[i], Len(found.directory) + 1, Len(found.md_files[i])) :
        i \in 1..Len(found.md_files) }

\* the .md files below the directory that are in no hidden directory below it
ExpectedBelow ==
    { f \in FilesBelow :
        /\ Cwd \o f \in tree.files
        /\ MatchesMd(Name(f))
        /\ \A i \in 1..(Len(f) - 1) : ~StartsWithDot(f[i]) }

\* C20: find_markdown_files returns, in the order of their paths and each
\* once, exactly the .md files below the directory that are not inside a
\* hidden directory below it, however the directory is given.
C20_FindsVisibleFiles ==
    found.pc = "done" =>
        /\ FoundBelow = ExpectedBelow
        /\ \A i, j \in 1..Len(found.md_files) :
              i < j => PathLess(found.md_files[i], found.md_files[j])

\* ------------------------------------------------- termination of the loop
\* C27: on every token stream and every spec.yaml, Blocks with an empty
\* sequence or without max_occurrences included, validate_structure comes to
\* an end (it returns, or raises into validate_file), an attempt that is
\* counted as a match moves the cursor forward by at least one token, and
\* the cursor stays within 0..len(tokens).
C27_StructureTerminates ==
    /\ [](token_index \in 0..Len(tokens))
    /\ [][matches' > matches => token_index' > token_index]_vars
    /\ (pc = "loop") ~> (pc \in {"links", "tally"})

\* a Block with an empty sequence was tried on a token, and the call ended
C27_Witness ==
    /\ pc \in {"links", "tally"}
    /\ attempt.made
    /\ spec.structure[attempt.block].sequence = <<>>
    /\ spec.structure[attempt.block].max_occurrences = Absent

\* ------------------------------------------------------- the output mode
\* C30: on the same tree, run returns the same exit code with verbose set
\* and without it.
C30_ExitCodeSameInBothModes ==
    link_validator.pc = "done" =>
        Val(link_validator.returned)
            = run(tree, link_validator.directory, ~link_validator.verbose)

\* ------------------------------------------------------ link and unlink
\* the last command, and the one before it
Last == history[Len(history)]
Previous == history[Len(history) - 1]

\* the command returned 0
Succeeded(command) == command.returned = Given(0)

\* what the command names: the directories, file names and links
SourceDirOf(command) == Parent(command.args.source_file)
SourceNameOf(command) == Name(command.args.source_file)
LinkOf(command) == NormPath(command.args.target_link)
TargetPathOf(command) == Resolve(SourceDirOf(command), LinkOf(command))
TargetDirOf(command) == Parent(TargetPathOf(command))
TargetNameOf(command) == Name(TargetPathOf(command))
BackLinkOf(command) == AsPosix(RelPath(command.args.source_file, TargetDirOf(command)))

\* established_links and allowed_targets of the links.yaml of a directory,
\* empty when the file or the key is missing
EstablishedOf(t, directory) == OrElse(YamlOf(t, directory).established_links, <<>>)
AllowedOf(t, directory) == OrElse(YamlOf(t, directory).allowed_targets, <<>>)

\* the links.yaml of the directory lists the link under the file name
Lists(t, directory, filename, link) ==
    Contains(Get(EstablishedOf(t, directory), filename), link)

\* every key of established_links of every links.yaml names a file of
\* the directory of that links.yaml
KeysNameFiles(t) ==
    \A d \in DOMAIN t.yaml :
       \A i \in 1..Len(EstablishedOf(t, d)) :
          Append(d, EstablishedOf(t, d)[i].source) \in t.files

\* C21: starting from links.yaml files whose established_links keys all name
\* files of their directory, after any sequence of link and unlink commands
\* every key still names a file that exists in the directory of its links.yaml.
C21_KeysNameFiles == KeysNameFiles(tree)

\* the forward entry and the back-link entry of the command are listed
ForwardListed(t, command) ==
    Lists(t, SourceDirOf(command), SourceNameOf(command), LinkOf(command))
BackListed(t, command) ==
    Lists(t, TargetDirOf(command), TargetNameOf(command), BackLinkOf(command))

\* C22: after link --bi has returned 0, the links.yaml of the source's
\* directory lists the target under the source's file name and the
\* links.yaml of the target's directory lists the path back to the source
\* under the target's file name, whether source and target are in the same
\* directory or not; verify-link finds the edge bidirectional.
C22_BiLinkBothWays ==
    (history # <<>> /\ Last.op = "link" /\ Last.args.bi /\ Succeeded(Last)) =>
        /\ ForwardListed(tree, Last)
        /\ BackListed(tree, Last)
        /\ Exists(tree, TargetPathOf(Last)) =>
              check_bidirectional(tree, LinkOf(Last), SourceNameOf(Last),
                                  SourceDirOf(Last)).status = "PASS"

\* C23: after unlink --bi has returned 0, neither the forward entry nor the
\* back-link entry remains in its links.yaml, whether source and target are
\* in the same directory or not.
C23_BiUnlinkBothWays ==
    (history # <<>> /\ Last.op = "unlink" /\ Last.args.bi /\ Succeeded(Last)) =>
        /\ ~ForwardListed(tree, Last)
        /\ ~BackListed(tree, Last)

\* the rule _add_force_rule makes for the link of the command
ForceRuleOf(command) ==
    Rule(RelDir(TargetDirOf(command), SourceDirOf(command)),
         GeneratedRegex(TargetNameOf(command)))

\* C24: after link --force has returned 0, allowed_targets of the links.yaml
\* of the source's directory holds a rule that permits the new link, so that
\* the allowed-target check of verify-link passes for it; the rule was added
\* only if no equal rule was there.
C24_ForceAddsRule ==
    (history # <<>> /\ Last.op = "link" /\ Last.args.force /\ Succeeded(Last)) =>
        LET before == AllowedOf(Last.before, SourceDirOf(Last))
            after == AllowedOf(tree, SourceDirOf(Last))
        IN /\ check_allowed_target(LinkOf(Last), SourceDirOf(Last), after)
           /\ Contains(after, ForceRuleOf(Last))
           /\ after = IF Contains(before, ForceRuleOf(Last)) THEN before
                      ELSE Append(before, ForceRuleOf(Last))

\* link --force made a link that the rules of the directory did not permit
C24_Witness ==
    /\ history # <<>>
    /\ Last.op = "link" /\ Last.args.force /\ Succeeded(Last)
    /\ AllowedOf(Last.before, SourceDirOf(Last)) # <<>>
    /\ ~check_allowed_target(LinkOf(Last), SourceDirOf(Last),
                             AllowedOf(Last.before, SourceDirOf(Last)))
    /\ SourceDirOf(Last) # TargetDirOf(Last)

C26_OnePolicy ==
    history # <<>> =>
        LET directory == SourceDirOf(Last)
            rules == AllowedOf(Last.before, directory)
            by_link == check_link_is_allowed(LinkOf(Last), directory, rules)
            by_verify_link == check_allowed_target(LinkOf(Last), directory, rules)
        IN /\ by_link = by_verify_link
           /\ (directory = Cwd /\ Has(YamlOf(Last.before, directory).allowed_targets)) =>
                 LinkValid(LinkOf(Last), rules) = by_verify_link
           /\ (Last.op = "link" /\ ~Last.args.force /\ Succeeded(Last)) =>
                 check_allowed_target(LinkOf(Last), directory, AllowedOf(tree, directory))

\* no two items of the list are equal
NoRepeats(list) == \A i, j \in 1..Len(list) : i # j => list[i] # list[j]

\* no list of established_links and no allowed_targets holds an entry twice
NoDoubleEntries(t) ==
    \A d \in DOMAIN t.yaml :
       /\ NoRepeats(AllowedOf(t, d))
       /\ \A i \in 1..Len(EstablishedOf(t, d)) : NoRepeats(EstablishedOf(t, d)[i].targets)

\* C28: a link command that has succeeded, run again with the same
\* arguments, succeeds and leaves every links.yaml as the first run left
\* it; and no list of established_links or allowed_targets holds the same
\* entry twice, whatever commands were run.
C28_LinkIdempotent ==
    /\ NoDoubleEntries(tree)
    /\ (history # <<>> /\ Last.op = "link" /\ Succeeded(Last)) =>
          link_files(tree, Last.args) = Outcome(Given(0), tree)

\* the same link --force --bi command was run twice, on files of two directories
C28_Witness ==
    /\ Len(history) = 2
    /\ Previous.op = "link" /\ Last.op = "link"
    /\ Previous.args = Last.args
    /\ Last.args.force /\ Last.args.bi
    /\ Succeeded(Previous) /\ Succeeded(Last)
    /\ SourceDirOf(Last) # TargetDirOf(Last)
    /\ Previous.before # Previous.after
    /\ Last.before = tree

\* link, then unlink of the same source and target, both with --bi or both
\* without it, both returning 0; the target exists, it is in another
\* directory than the source, and the link (with --bi, its back-link too)
\* was not listed before the link command
LinkedThenUnlinked ==
    /\ Len(history) = 2
    /\ Previous.op = "link" /\ Last.op = "unlink"
    /\ Previous.args.source_file = Last.args.source_file
    /\ Previous.args.target_link = Last.args.target_link
    /\ Previous.args.bi = Last.args.bi
    /\ Succeeded(Previous) /\ Succeeded(Last)
    /\ Exists(tree, TargetPathOf(Last))
    /\ SourceDirOf(Last) # TargetDirOf(Last)
    /\ ~ForwardListed(Previous.before, Last)
    /\ Last.args.bi => ~BackListed(Previous.before, Last)

\* the map without the key, when the list of the key is empty
WithoutEmpty(established, filename) ==
    IF Get(established, filename) = <<>> THEN WithoutKey(established, filename)
    ELSE established

\* C29 as stated: link followed by unlink of the same source and target
\* restores the established_links maps of the links.yaml files of both
\* directories to their content before the link.
C29_LinkUnlinkRestores ==
    LinkedThenUnlinked =>
        /\ EstablishedOf(tree, SourceDirOf(Last))
              = EstablishedOf(Previous.before, SourceDirOf(Last))
        /\ EstablishedOf(tree, TargetDirOf(Last))
              = EstablishedOf(Previous.before, TargetDirOf(Last))

\* C29, amended: link followed by unlink of the same source and target
\* restores the established_links maps of both directories to their content
\* before the link, but for a key of the source (with --bi, of the target
\* too) that had an empty list before the link: that key is deleted, as is
\* the key of any file whose last link is removed.
C29_LinkUnlinkRestoresLinks ==
    LinkedThenUnlinked =>
        /\ EstablishedOf(tree, SourceDirOf(Last))
              = WithoutEmpty(EstablishedOf(Previous.before, SourceDirOf(Last)),
                             SourceNameOf(Last))
        /\ EstablishedOf(tree, TargetDirOf(Last))
              = IF Last.args.bi
                THEN WithoutEmpty(EstablishedOf(Previous.before, TargetDirOf(Last)),
                                  TargetNameOf(Last))
                ELSE EstablishedOf(Previous.before, TargetDirOf(Last))
        /\ Get(EstablishedOf(tree, SourceDirOf(Last)), SourceNameOf(Last)) = <<>>
              => ~HasKey(EstablishedOf(tree, SourceDirOf(Last)), SourceNameOf(Last))

\* link --bi and unlink --bi of a source that had no links before
C29_Witness ==
    /\ LinkedThenUnlinked
    /\ Last.args.bi
    /\ ~HasKey(EstablishedOf(Previous.before, SourceDirOf(Last)), SourceNameOf(Last))
    /\ ForwardListed(Previous.after, Last)
    /\ BackListed(Previous.after, Last)

====
